---- MODULE Spec2Model ----
(***************************************************************************)
(* A model of the classification-and-preservation pipeline of GT-Post:     *)
(*   gtpost/analyze/layering.py   preservation                              *)
(*   gtpost/analyze/sediment.py   calculate_fraction, calculate_diameter    *)
(*   gtpost/analyze/surface.py    detect_depositional_environments,         *)
(*                                detect_elements                           *)
(*   gtpost/utils.py              skeleton_endpoints, create_circular_mask  *)
(* Every component has its own specification (SpecPres, SpecFrac, ...);     *)
(* the variables of the other components stay at their idle values.         *)
(* Rasters are functions over 0-based indices, as in the numpy code.        *)
(* Real quantities are scaled integers or exact rationals <<num, den>>.     *)
(***************************************************************************)
EXTENDS Integers, Sequences, FiniteSets, TLC

VARIABLES
    \* layering.preservation: inputs, outputs, loop index t
    zcor, subsidence, preserved_thickness, deposition_age, pres_t,
    \* sediment.calculate_fraction: inputs, output, position
    rho_db, dmsedcum_final, vfraction, frac_pc,
    \* sediment.calculate_diameter: inputs, outputs, timesteps still to run
    d50input, vfraction_in, diameters, porosity, permeability, diam_todo,
    \* surface.detect_depositional_environments: inputs, output, loop index, outcome
    env_bottom_depth, env_foreset_depth, environments, env_t, env_status,
    \* utils.skeleton_endpoints: input, result, outcome
    skeleton, skel_coords, skel_status,
    \* surface.detect_elements: the arrays by name, the caller's arguments, the
    \* config, loop index, outcome, number of the call, outcome of the first call
    elem_heap, elem_scene, elem_config, elem_t, elem_status, elem_call, elem_first,
    \* window_ops.numba_window_*: arguments, the function called, result, outcome
    win_array, win_size, win_op, win_output, win_status,
    \* surface.slope: argument, result, outcome
    slope_array, slope_result, slope_status,
    \* surface.detect_channel_network
    chan_dataset, chan_subenvironment, chan_scene, chan_config, chan_shared, chan_call, chan_channels, chan_t, chan_status,
    \* statistics.get_stats_per_archel
    stat_scene, stat_volumes, stat_d50s, stat_fractions, stat_sorting, stat_result, stat_i, stat_status,
    \* surface.delta_areas_from_boundaries
    area_args, area_result, area_status,
    \* utils.get_deltafront_contour_depth
    fore_scene, fore_contours, fore_i, fore_status,
    \* sedlog.SedimentaryLog._get_log_data
    log_zcor, logdepth, logdata, log_t, log_status,
    \* model.ModelResult: construction and postprocess
    run_config, run_fail, run_fields, run_done, run_error, run_pc

presVars == <<zcor, subsidence, preserved_thickness, deposition_age, pres_t>>
fracVars == <<rho_db, dmsedcum_final, vfraction, frac_pc>>

diamVars == <<d50input, vfraction_in, diameters, porosity, permeability, diam_todo>>

envVars == <<env_bottom_depth, env_foreset_depth, environments, env_t, env_status>>
skelVars == <<skeleton, skel_coords, skel_status>>

elemVars == <<elem_heap, elem_scene, elem_config, elem_t, elem_status, elem_call,
              elem_first>>

winVars == <<win_array, win_size, win_op, win_output, win_status>>

slopeVars == <<slope_array, slope_result, slope_status>>

chanVars == <<chan_dataset, chan_subenvironment, chan_scene, chan_config, chan_shared, chan_call, chan_channels, chan_t, chan_status>>

statVars == <<stat_scene, stat_volumes, stat_d50s, stat_fractions, stat_sorting, stat_result, stat_i, stat_status>>

areaVars == <<area_args, area_result, area_status>>

foreVars == <<fore_scene, fore_contours, fore_i, fore_status>>

logVars == <<log_zcor, logdepth, logdata, log_t, log_status>>

runVars == <<run_config, run_fail, run_fields, run_done, run_error, run_pc>>

vars == <<presVars, fracVars, diamVars, envVars, skelVars, elemVars, winVars, slopeVars, chanVars, statVars, areaVars, foreVars, logVars, runVars>>

\* what the steps of one component leave alone
notPres == <<fracVars, diamVars, envVars, skelVars, elemVars, winVars, slopeVars, chanVars, statVars, areaVars, foreVars, logVars, runVars>>
notFrac == <<presVars, diamVars, envVars, skelVars, elemVars, winVars, slopeVars, chanVars, statVars, areaVars, foreVars, logVars, runVars>>
notDiam == <<presVars, fracVars, envVars, skelVars, elemVars, winVars, slopeVars, chanVars, statVars, areaVars, foreVars, logVars, runVars>>
notEnv == <<presVars, fracVars, diamVars, skelVars, elemVars, winVars, slopeVars, chanVars, statVars, areaVars, foreVars, logVars, runVars>>
notSkel == <<presVars, fracVars, diamVars, envVars, elemVars, winVars, slopeVars, chanVars, statVars, areaVars, foreVars, logVars, runVars>>
notElem == <<presVars, fracVars, diamVars, envVars, skelVars, winVars, slopeVars, chanVars, statVars, areaVars, foreVars, logVars, runVars>>
notWin == <<presVars, fracVars, diamVars, envVars, skelVars, elemVars, slopeVars, chanVars, statVars, areaVars, foreVars, logVars, runVars>>
notSlope == <<presVars, fracVars, diamVars, envVars, skelVars, elemVars, winVars, chanVars, statVars, areaVars, foreVars, logVars, runVars>>
notChan == <<presVars, fracVars, diamVars, envVars, skelVars, elemVars, winVars, slopeVars, statVars, areaVars, foreVars, logVars, runVars>>
notStat == <<presVars, fracVars, diamVars, envVars, skelVars, elemVars, winVars, slopeVars, chanVars, areaVars, foreVars, logVars, runVars>>
notArea == <<presVars, fracVars, diamVars, envVars, skelVars, elemVars, winVars, slopeVars, chanVars, statVars, foreVars, logVars, runVars>>
notFore == <<presVars, fracVars, diamVars, envVars, skelVars, elemVars, winVars, slopeVars, chanVars, statVars, areaVars, logVars, runVars>>
notLog == <<presVars, fracVars, diamVars, envVars, skelVars, elemVars, winVars, slopeVars, chanVars, statVars, areaVars, foreVars, runVars>>
notRun == <<presVars, fracVars, diamVars, envVars, skelVars, elemVars, winVars, slopeVars, chanVars, statVars, areaVars, foreVars, logVars>>

----------------------------------------------------------------------------
(* Generic helpers                                                          *)

Max(a, b) == IF a >= b THEN a ELSE b
Min(a, b) == IF a <= b THEN a ELSE b
Abs(a) == IF a < 0 THEN -a ELSE a

SetMin(S) == CHOOSE x \in S : \A y \in S : x <= y
SetMax(S) == CHOOSE x \in S : \A y \in S : x >= y

\* numpy/Python indexing of an axis of length n with a possibly negative index
PyIndex(i, n) == IF i < 0 THEN i + n ELSE i

----------------------------------------------------------------------------
(* layering.preservation                                                    *)
(* The numpy statements of preservation() act on every raster cell alike;   *)
(* the model follows the time column of one cell (ix, iy).                  *)

MaxT == 4          \* largest number of timesteps of a stack
MaxElev == 2       \* elevations zcor are 0..MaxElev
MaxSub == 1        \* cumulative subsidence is 0..MaxSub

Elevs == 0..MaxElev
Subs == 0..MaxSub

\* number of timesteps of the stack (zcor.shape[0])
NT == Cardinality(DOMAIN zcor)

\* layering.py:26  zcor_corrected = zcor - subsidence
zcor_corrected(t) == zcor[t] - subsidence[t]

\* np.min(zcor_corrected[t + 1 :, :, :], axis=0)
MinLater(t) == SetMin({zcor_corrected(s) : s \in (t + 1)..(NT - 1)})

\* the same loop body with the "* -1" of line 33 forgotten
ZPreservedNoNegation(t) ==
    IF t # NT - 1
    THEN zcor_corrected(t) - MinLater(t)
    ELSE zcor_corrected(t) - zcor_corrected(PyIndex(t - 1, NT))

\* layering.py:30-35  z_preserved before clipping
ZPreserved(t) ==
    IF t # NT - 1
    THEN (zcor_corrected(t) - MinLater(t)) * (-1)
    ELSE zcor_corrected(t) - zcor_corrected(PyIndex(t - 1, NT))

\* the clipping of line 36 left out
ClipNegativeMissing(z) == z

\* layering.py:36  z_preserved[z_preserved < 0] = 0
ClipNegative(z) == IF z < 0 THEN 0 ELSE z

\* the age restarts from 0 instead of carrying the previous value
DepositionAgeReset(t, prev, zp) ==
    IF t = 0 THEN t ELSE IF zp > 0 THEN t ELSE 0

\* layering.py:38-42  deposition age of the cell at timestep t
DepositionAge(t, prev, zp) ==
    IF t = 0 THEN t ELSE IF zp > 0 THEN t ELSE prev

PresIdle ==
    /\ zcor = <<>>
    /\ subsidence = <<>>
    /\ preserved_thickness = <<>>
    /\ deposition_age = <<>>
    /\ pres_t = 0

\* layering.py:26-28  the state on entry of the loop
PresEntry ==
    /\ \E nt \in 1..MaxT :
          /\ zcor \in [0..(nt - 1) -> Elevs]
          /\ subsidence \in [0..(nt - 1) -> Subs]
          /\ preserved_thickness = [t \in 0..(nt - 1) |-> 0]
          /\ deposition_age = [t \in 0..(nt - 1) |-> 0]
    /\ pres_t = 0

\* layering.py:29-42  one iteration of "for t in range(zcor.shape[0])"
PreservationStep ==
    /\ pres_t < NT
    /\ LET t == pres_t
           zp == ClipNegative(ZPreserved(t))
       IN  /\ preserved_thickness' = [preserved_thickness EXCEPT ![t] = zp]
           /\ deposition_age' =
                 [deposition_age EXCEPT ![t] =
                     DepositionAge(t, deposition_age[PyIndex(t - 1, NT)], zp)]
    /\ pres_t' = pres_t + 1
    /\ UNCHANGED <<zcor, subsidence>>
    /\ UNCHANGED notPres

\* the timesteps the loop has completed
PresDone == 0..(pres_t - 1)

(* C1 (as amended): for every completed timestep t except the last,        *)
(* preserved_thickness[t] = max(0, min over later s of e(s) - e(t)), with   *)
(* e = zcor - subsidence; a cell lower at t than at every later timestep    *)
(* gets the positive value min(later e) - e(t).                             *)
C1_PreservedIsRiseToLaterMin ==
    \A t \in PresDone :
        t # NT - 1 =>
            /\ preserved_thickness[t] = Max(0, MinLater(t) - zcor_corrected(t))
            /\ (\A s \in (t + 1)..(NT - 1) : zcor_corrected(t) < zcor_corrected(s))
                  => /\ preserved_thickness[t] > 0
                     /\ preserved_thickness[t] = MinLater(t) - zcor_corrected(t)

\* a finished run where a cell was lower at t than at every later timestep
C1_Witness ==
    /\ pres_t = NT
    /\ \E t \in 0..(NT - 2) :
          /\ \A s \in (t + 1)..(NT - 1) : zcor_corrected(t) < zcor_corrected(s)
          /\ preserved_thickness[t] > 0

(* C1 as stated: preserved_thickness[t] = max(0, e(t) - min over later s    *)
(* of e(s)) for every completed timestep t except the last.                 *)
C1_Original ==
    \A t \in PresDone :
        t # NT - 1 =>
            preserved_thickness[t] = Max(0, zcor_corrected(t) - MinLater(t))

(* C4: the preserved thickness is >= 0 at every completed timestep, the     *)
(* last one included.                                                       *)
C4_ThicknessNonNegative ==
    \A t \in DOMAIN preserved_thickness : preserved_thickness[t] >= 0

\* the clipping acted: a raw difference below 0 was stored as 0, last step included
C4_Witness ==
    /\ pres_t = NT
    /\ NT >= 2
    /\ ZPreserved(NT - 1) < 0
    /\ preserved_thickness[NT - 1] = 0
    /\ \E t \in 0..(NT - 2) : ZPreserved(t) < 0 /\ preserved_thickness[t] = 0

(* C5: deposition_age is non-decreasing along the timestep axis, is 0 at    *)
(* timestep 0 and never exceeds the timestep index.                         *)
C5_AgeMonotone ==
    /\ pres_t > 0 => deposition_age[0] = 0
    /\ \A t \in PresDone : deposition_age[t] <= t
    /\ \A t \in PresDone : t > 0 => deposition_age[t - 1] <= deposition_age[t]

\* a finished run where the age both advanced and was carried over
C5_Witness ==
    /\ pres_t = NT
    /\ NT >= 3
    /\ \E t \in 1..(NT - 1) : deposition_age[t] = t
    /\ \E t \in 2..(NT - 1) : deposition_age[t] = deposition_age[t - 1]
                              /\ deposition_age[t] > 0

(* C6: for every completed timestep t except the last, if the corrected     *)
(* elevation at some later timestep is lower than at t, then                *)
(* preserved_thickness[t] = 0.                                              *)
C6_ErodedLaterIsZero ==
    \A t \in PresDone :
        (t # NT - 1 /\ \E s \in (t + 1)..(NT - 1) :
                          zcor_corrected(s) < zcor_corrected(t))
            => preserved_thickness[t] = 0

\* a finished run with a timestep whose surface was eroded below later on
C6_Witness ==
    /\ pres_t = NT
    /\ \E t \in 0..(NT - 2) :
          /\ zcor_corrected(t + 1) > zcor_corrected(t)
          /\ \E s \in (t + 2)..(NT - 1) : zcor_corrected(s) < zcor_corrected(t)
          /\ preserved_thickness[t] = 0

\* model.py:186-194  deposit_height of timestep t >= 1: the rise of the
\* corrected surface since the previous timestep (differences below 1e-5 are
\* set to 0, which no integer elevation is)
DepositHeight(t) == zcor_corrected(t) - zcor_corrected(t - 1)

(* C22: for every completed timestep t >= 1, deposition_age[t] = t exactly  *)
(* when material was deposited during t (deposit height above 0), and       *)
(* deposition_age[t] = deposition_age[t-1] otherwise.                       *)
C22_AgeFollowsDeposition ==
    \A t \in PresDone :
        t >= 1 =>
            /\ DepositHeight(t) > 0 => deposition_age[t] = t
            /\ DepositHeight(t) <= 0 => deposition_age[t] = deposition_age[t - 1]

(* C23 (as amended): for the last timestep T-1 of a stack of T >= 2         *)
(* timesteps, preserved_thickness[T-1] = max(0, e(T-1) - e(T-2)), with      *)
(* e = zcor - subsidence.                                                   *)
C23_LastStepIsClippedRise ==
    (pres_t = NT /\ NT >= 2) =>
        preserved_thickness[NT - 1] =
            Max(0, zcor_corrected(NT - 1) - zcor_corrected(NT - 2))

\* a finished run whose last step eroded, and the stored thickness is 0
C23_Witness ==
    /\ pres_t = NT
    /\ NT >= 2
    /\ zcor_corrected(NT - 1) < zcor_corrected(NT - 2)
    /\ preserved_thickness[NT - 1] = 0

(* C23 as stated: preserved_thickness[T-1] = e(T-1) - e(T-2).               *)
C23_Original ==
    (pres_t = NT /\ NT >= 2) =>
        preserved_thickness[NT - 1] =
            zcor_corrected(NT - 1) - zcor_corrected(NT - 2)

\* the sum of thickness over the timesteps 0..t
RECURSIVE SumThickness(_, _)
SumThickness(thickness, t) ==
    IF t < 0 THEN 0 ELSE thickness[t] + SumThickness(thickness, t - 1)

(* C28: after the run, the preserved thicknesses summed over all timesteps  *)
(* equal the corrected elevation at the final timestep minus the lowest     *)
(* corrected elevation reached during the run.                              *)
C28_ThicknessSumsToNetRise ==
    pres_t = NT =>
        SumThickness(preserved_thickness, NT - 1) =
            zcor_corrected(NT - 1)
                - SetMin({zcor_corrected(t) : t \in 0..(NT - 1)})

----------------------------------------------------------------------------
(* Exact rationals <<numerator, denominator>>, denominator > 0              *)

RECURSIVE GCD(_, _)
GCD(a, b) == IF b = 0 THEN a ELSE GCD(b, a % b)

RNorm(q) ==
    LET g == GCD(Abs(q[1]), q[2])
    IN  IF q[1] = 0 THEN <<0, 1>> ELSE <<q[1] \div g, q[2] \div g>>

RAdd(p, q) == RNorm(<<p[1] * q[2] + q[1] * p[2], p[2] * q[2]>>)
RSub(p, q) == RNorm(<<p[1] * q[2] - q[1] * p[2], p[2] * q[2]>>)
RMul(p, q) == RNorm(<<p[1] * q[1], p[2] * q[2]>>)
\* p / q for q # 0
RDiv(p, q) ==
    IF q[1] > 0 THEN RNorm(<<p[1] * q[2], p[2] * q[1]>>)
    ELSE RNorm(<<(-p[1]) * q[2], p[2] * (-q[1])>>)
RLt(p, q) == p[1] * q[2] < q[1] * p[2]
RLe(p, q) == p[1] * q[2] <= q[1] * p[2]
RAbs(p) == <<Abs(p[1]), p[2]>>
RZero == <<0, 1>>
ROne == <<1, 1>>

\* the sum of f[i] over the integer interval lo..hi
RECURSIVE RSumOver(_, _, _)
RSumOver(f, lo, hi) ==
    IF lo > hi THEN RZero ELSE RAdd(f[lo], RSumOver(f, lo + 1, hi))

----------------------------------------------------------------------------
(* sediment.calculate_fraction                                              *)
(* np.divide and the masks act on every (time, x, y) cell alike, the sum    *)
(* runs over the sediment-class axis; the model follows one cell.           *)

NClass == 3        \* number of sediment classes
MaxMass == 2       \* cumulative mass flux of a class is -1..MaxMass
MaxRho == 2        \* dry bed density of a class is 1..MaxRho

Classes == 0..(NClass - 1)
Masses == (-1)..MaxMass
Rhos == 1..MaxRho

\* a float read from memory that np.divide never wrote: any value, NaN included
NaN == <<0, 0>>
Uninitialised == {NaN, RZero, ROne, <<-7, 2>>}

\* sediment.py:61-63  dvsedcum, the volumetric flux with non-positive mass zeroed
dvsedcum(c) ==
    IF dmsedcum_final[c] <= 0 THEN RZero
    ELSE RNorm(<<dmsedcum_final[c], rho_db[c]>>)

\* sediment.py:64  sumsedvcum = np.sum(dvsedcum, axis=1)
sumsedvcum == RSumOver([c \in Classes |-> dvsedcum(c)], 0, NClass - 1)

\* sediment.py:66-70  np.divide(..., where=sumsedvcum != 0) with no out= array:
\* where the condition is false the freshly allocated result is left unwritten
DivideWhere(c, unwritten) ==
    IF sumsedvcum # RZero THEN RDiv(dvsedcum(c), sumsedvcum) ELSE unwritten

\* sediment.py:71  vfraction[np.isnan(vfraction) == 1] = 0
NanToZero(x) == IF x = NaN THEN RZero ELSE x

FracIdle ==
    /\ rho_db = <<>>
    /\ dmsedcum_final = <<>>
    /\ vfraction = <<>>
    /\ frac_pc = "idle"

\* the arguments of a call
FracEntry ==
    /\ rho_db \in [Classes -> Rhos]
    /\ dmsedcum_final \in [Classes -> Masses]
    /\ vfraction = <<>>
    /\ frac_pc = "entry"

\* sediment.py:57-74  calculate_fraction
CalculateFraction ==
    /\ frac_pc = "entry"
    /\ \E mem \in [Classes -> Uninitialised] :
          vfraction' = [c \in Classes |-> NanToZero(DivideWhere(c, mem[c]))]
    /\ frac_pc' = "done"
    /\ UNCHANGED <<rho_db, dmsedcum_final>>
    /\ UNCHANGED notFrac

(* C2: after calculate_fraction the class fractions of a cell sum to 1      *)
(* when the cell's total volumetric flux is > 0, and each class fraction    *)
(* is exactly 0 when the total flux is 0.                                   *)
C2_FractionsSumToOneOrZero ==
    frac_pc = "done" =>
        /\ RLt(RZero, sumsedvcum)
              => RSumOver(vfraction, 0, NClass - 1) = ROne
        /\ sumsedvcum = RZero => \A c \in Classes : vfraction[c] = RZero

----------------------------------------------------------------------------
(* sediment.calculate_distribution and sediment.calculate_diameter          *)
(* Grain sizes are kept on the phi scale the code works on: a class with    *)
(* diameter d (m) is given by xphi = -log2(1000 d) in units of 0.01 phi,    *)
(* positions on the phi axis are doubled so that the midpoints of line      *)
(* 146 are integers.  Volume fractions are WeightUnits-ths.  A diameter     *)
(* 2 ** -xvalue[k] read from the phi grid is recorded by its rank           *)
(* GridN - k among the grid diameters (rank GridN is the 2 mm of            *)
(* xvalue[0] = -1), a diameter of 0 by rank 0.  The loop over (ix, iy)      *)
(* treats every cell alike; the model follows one cell.                     *)

GridN == 90        \* len(np.arange(-1, 8, 0.1))
NaNRank == -1      \* np.nan in an array of diameter ranks or porosities
MaxDiamT == 2      \* timesteps of the stack passed to calculate_diameter
WeightUnits == 4   \* volume fractions are multiples of 1 / WeightUnits

DiamTimes == 0..(MaxDiamT - 1)

\* model.py:261  percentage2cal
percentage2cal == <<5, 10, 16, 50, 84, 90>>
NPercentiles == Len(percentage2cal)

\* class phi values (0.01 phi), coarse to fine as in the .sed files: classes
\* of the test suite (1.41, 0.707, 0.354, 0.2, 0.1, 0.044 mm are -50, 50,
\* 150, 232, 332, 450) and one family of closely spaced classes
PhiFamilies ==
    { <<-50, 50, 150>>, <<150, 232, 332>>, <<50, 232, 450>>, <<232, 240, 250>> }

\* the sediment-class axis of vfraction (axis 1), one class per family entry
DiamClasses == 0..2

\* the volume fractions of a cell: they sum to 1, or are all 0 (no deposition)
WeightVectors ==
    { w \in [DiamClasses -> 0..WeightUnits] :
        w[0] + w[1] + w[2] \in {0, WeightUnits} }

\* sediment.py:154  xnew[k], doubled 0.01 phi
xnew2(k) == -200 + 20 * k

\* sediment.py:139  the classes with fraction_data > 0, in class order
RECURSIVE Selected(_, _)
Selected(w, c) ==
    IF c \notin DOMAIN w THEN <<>>
    ELSE IF w[c] > 0 THEN <<c>> \o Selected(w, c + 1)
    ELSE Selected(w, c + 1)

\* sediment.py:140-149  xphi after the hstack: first - 0.5, midpoints, last + 0.5
xphi2(phi, sel) ==
    LET n == Len(sel)
    IN  [j \in 1..(n + 1) |->
            IF j = 1 THEN 2 * phi[sel[1] + 1] - 100
            ELSE IF j = n + 1 THEN 2 * phi[sel[n] + 1] + 100
            ELSE phi[sel[j - 1] + 1] + phi[sel[j] + 1]]

\* sediment.py:151-152  cdf = hstack(0, cumsum(fraction_data[fraction_data > 0]))
RECURSIVE CumWeight(_, _, _)
CumWeight(w, sel, j) ==
    IF j = 0 THEN 0 ELSE w[sel[j]] + CumWeight(w, sel, j - 1)

cdfPoints(w, sel) == [j \in 1..(Len(sel) + 1) |-> CumWeight(w, sel, j - 1)]

\* sediment.py:155  np.interp(x, xp, fp) for increasing xp: constant outside
\* xp, linear between the two points that bracket x
Interp(x, xp, fp) ==
    LET n == Len(xp)
    IN  IF x <= xp[1] THEN <<fp[1], 1>>
        ELSE IF x >= xp[n] THEN <<fp[n], 1>>
        ELSE LET j == CHOOSE i \in 1..(n - 1) : xp[i] <= x /\ x < xp[i + 1]
             IN  RNorm(<<fp[j] * (xp[j + 1] - xp[j])
                            + (x - xp[j]) * (fp[j + 1] - fp[j]),
                         xp[j + 1] - xp[j]>>)

\* sediment.py:139-155, 208-212  ynew on the phi grid, as a fraction of 1;
\* NaN everywhere when no class has a positive fraction
ynew(phi, w) ==
    LET sel == Selected(w, 0)
    IN  IF Len(sel) = 0 THEN [k \in 0..(GridN - 1) |-> NaN]
        ELSE LET xp == xphi2(phi, sel)
                 fp == cdfPoints(w, sel)
             IN  [k \in 0..(GridN - 1) |->
                    RDiv(Interp(xnew2(k), xp, fp), <<WeightUnits, 1>>)]

\* sediment.py:156-159  np.abs(np.sum(np.diff(ynew)) - 1) < 0.1
DistributionValid(phi, w) ==
    /\ Len(Selected(w, 0)) > 0
    /\ LET y == ynew(phi, w)
       IN  RLt(RAbs(RSub(RSub(y[GridN - 1], y[0]), ROne)), <<1, 10>>)

\* np.argmin over the grid indices lo..hi: the first index of the smallest value
RECURSIVE ArgMin(_, _, _)
ArgMin(d, lo, hi) ==
    IF lo = hi THEN lo
    ELSE LET mid == (lo + hi) \div 2
             a == ArgMin(d, lo, mid)
             b == ArgMin(d, mid + 1, hi)
         IN  IF RLt(d[b], d[a]) THEN b ELSE a


\* sediment.py:251-253  np.argmin(np.abs(cdf - (1 - 0.01 * percentage)));
\* the argmin of an all-NaN array is 0
PercentileIndex(y, pct) ==
    IF y[0] = NaN THEN 0
    ELSE ArgMin([k \in 0..(GridN - 1) |->
                    RAbs(RSub(y[k], <<100 - pct, 100>>))], 0, GridN - 1)

\* sediment.py:249-250  2 ** (-xvalue[k]), by rank
Pow2Neg(k) == GridN - k

\* sediment.py:260-266  a diameter of 2 (xvalue[0]) is replaced by the value the
\* previous timestep holds, or by 0 at the first timestep
DiameterAt(it, y, ip) ==
    LET dia == Pow2Neg(PercentileIndex(y, percentage2cal[ip]))
    IN  IF dia = Pow2Neg(0)
        THEN IF it > 0 THEN diameters[it - 1][ip] ELSE 0
        ELSE dia

\* sediment.py:159-213  the porosity calculate_distribution returns: NaN for an
\* invalid distribution, else a positive value, recorded by the timestep whose
\* distribution it was computed from
PorosityOf(it, phi, w) == IF DistributionValid(phi, w) THEN it + 1 ELSE NaNRank

\* sediment.py:242  (porosity[:, ix, iy] > 0.0).nonzero()[-1], as it stands when read
LastKnownIdxs(por) == {t \in DOMAIN por : por[t] > 0}

DiamIdle ==
    /\ d50input = <<>>
    /\ vfraction_in = <<>>
    /\ diameters = <<>>
    /\ porosity = <<>>
    /\ permeability = <<>>
    /\ diam_todo = {}

\* sediment.py:218-226  the arrays before the parallel loop
DiamEntry ==
    /\ d50input \in PhiFamilies
    /\ vfraction_in \in [DiamTimes -> WeightVectors]
    /\ diameters = [t \in DiamTimes |->
                      [ip \in 1..NPercentiles |-> IF t = 0 THEN NaNRank ELSE 0]]
    /\ porosity = [t \in DiamTimes |-> IF t = 0 THEN NaNRank ELSE 0]
    /\ permeability = [t \in DiamTimes |-> IF t = 0 THEN NaNRank ELSE 0]
    /\ diam_todo = DiamTimes

\* sediment.py:227-268  one iteration "it" of the numba.prange loop; the
\* iterations run in parallel, in any order
DiameterIteration(it) ==
    /\ it \in diam_todo
    /\ LET w == vfraction_in[it]
           y == ynew(d50input, w)
           por == PorosityOf(it, d50input, w)
           por1 == [porosity EXCEPT ![it] = por]
           known == LastKnownIdxs(por1)
           src == IF por = NaNRank /\ known # {} THEN SetMax(known) ELSE it
       IN  /\ porosity' = [por1 EXCEPT ![it] = por1[src]]
           /\ permeability' =
                 [permeability EXCEPT ![it] =
                     IF src = it THEN por ELSE permeability[src]]
           /\ diameters' =
                 [diameters EXCEPT ![it] =
                     [ip \in 1..NPercentiles |-> DiameterAt(it, y, ip)]]
    /\ diam_todo' = diam_todo \ {it}
    /\ UNCHANGED <<d50input, vfraction_in>>
    /\ UNCHANGED notDiam

\* position of a percentage in percentage2cal
PIdx(pct) == CHOOSE ip \in 1..NPercentiles : percentage2cal[ip] = pct

\* a < b between two stored diameters (false when either is NaN)
DiamLt(a, b) == a # NaNRank /\ b # NaNRank /\ a < b

\* deposition occurred at timestep t of the cell
Deposited(t) == \E c \in DiamClasses : vfraction_in[t][c] > 0

(* C3: wherever deposition occurred, the percentile diameters returned by   *)
(* calculate_diameter are strictly ordered, D10 < D16 < D50 < D84 < D90.    *)
C3_PercentilesStrictlyOrdered ==
    \A t \in DOMAIN diameters :
        (diam_todo = {} /\ Deposited(t)) =>
            /\ DiamLt(diameters[t][PIdx(10)], diameters[t][PIdx(16)])
            /\ DiamLt(diameters[t][PIdx(16)], diameters[t][PIdx(50)])
            /\ DiamLt(diameters[t][PIdx(50)], diameters[t][PIdx(84)])
            /\ DiamLt(diameters[t][PIdx(84)], diameters[t][PIdx(90)])

\* the timesteps before t whose distribution at the cell is valid
EarlierValid(t) ==
    {s \in DiamTimes : s < t /\ DistributionValid(d50input, vfraction_in[s])}

(* C15: when the distribution at timestep t is invalid, porosity and        *)
(* permeability at t hold the values of the nearest earlier timestep with a *)
(* valid distribution, and are undefined only if there is none, in whatever *)
(* order the parallel loop ran its iterations.                              *)
C15_BackfillFromNearestEarlier ==
    diam_todo = {} =>
        \A t \in DiamTimes :
            ~DistributionValid(d50input, vfraction_in[t]) =>
                IF EarlierValid(t) = {}
                THEN porosity[t] = NaNRank /\ permeability[t] = NaNRank
                ELSE /\ porosity[t] = SetMax(EarlierValid(t)) + 1
                     /\ permeability[t] = SetMax(EarlierValid(t)) + 1

\* the stack that holds the fractions of the run at timestep t and no
\* deposition at any other timestep
OnlyAt(t) ==
    [s \in DiamTimes |-> IF s = t THEN vfraction_in[t] ELSE [c \in DiamClasses |-> 0]]

\* sediment.py:248-266  the diameter at (it, ip) of a run over stack whose
\* iterations execute in the order of the timesteps
RECURSIVE SequentialDiameter(_, _, _)
SequentialDiameter(stack, it, ip) ==
    LET dia == Pow2Neg(PercentileIndex(ynew(d50input, stack[it]), percentage2cal[ip]))
    IN  IF dia = Pow2Neg(0)
        THEN IF it > 0 THEN SequentialDiameter(stack, it - 1, ip) ELSE 0
        ELSE dia

(* C16: the percentile diameters calculate_diameter returns at (t, cell)    *)
(* are determined by the volume fractions at (t, cell) alone: a run returns *)
(* at t what a run returns whose input differs from it at the other         *)
(* timesteps only, whatever the order of the iterations.                    *)
C16_DiametersDependOnOwnFractionsOnly ==
    diam_todo = {} =>
        \A t \in DiamTimes, ip \in 1..NPercentiles :
            diameters[t][ip] = SequentialDiameter(OnlyAt(t), t, ip)

----------------------------------------------------------------------------
(* classifications.SubEnv and classifications.ArchEl                        *)

SubEnv == [undefined |-> 0, deltatop |-> 1, deltafront |-> 2, prodelta |-> 3]

ArchEl == [undefined |-> 0, dtair |-> 1, dtaqua |-> 2, channel |-> 3,
           mouthbar |-> 4, deltafront |-> 5, prodelta |-> 6]

----------------------------------------------------------------------------
(* surface.detect_depositional_environments (gtpost/analyze/surface.py)     *)
(* The rasters of this component have two rows and EnvCols columns and      *)
(* vary along the column axis only, so a raster is given by its column      *)
(* profile.  The shapely/rasterio geometry between the contour and the      *)
(* rasterised polygons is not computed: a step either fails in it or        *)
(* yields some delta-front and prodelta polygons, as sets of columns.       *)

EnvT == 3          \* timesteps of bottom_depth (bottom_depth.shape[0])
EnvCols == 5       \* columns of the raster
EnvWindow == 7     \* surface.py:59  window size of the smoothing

EnvColumns == 0..(EnvCols - 1)

\* depth profiles: 0 up to a column, 1 from it on
EnvProfiles == { [c \in EnvColumns |-> IF c < k THEN 0 ELSE 1] : k \in 0..EnvCols }
\* foreset depths: between the two depth values, or deeper than either
EnvLevels == { <<1, 2>>, <<2, 1>> }

\* window_ops.py:79-93  the columns of the window centred on col, clipped at the edges
WindowColumns(col, size, ncols) ==
    { c \in 0..(ncols - 1) :
        /\ c >= col - ((size - 1) \div 2)
        /\ c < col + ((size - 1) \div 2) + 1 }

RECURSIVE SumOfColumns(_, _)
SumOfColumns(profile, S) ==
    IF S = {} THEN 0
    ELSE LET c == CHOOSE x \in S : TRUE
         IN  profile[c] + SumOfColumns(profile, S \ {c})

\* window_ops.py:127-158  numba_window_average of a raster without missing values
WindowAverage(profile, size) ==
    [col \in DOMAIN profile |->
        LET W == WindowColumns(col, size, Cardinality(DOMAIN profile))
        IN  RNorm(<<SumOfColumns(profile, W), Cardinality(W)>>)]

\* skimage.measure.find_contours: a contour exists where neighbouring cells lie
\* on different sides of the level
HasContour(profile, level) ==
    \E c \in DOMAIN profile :
        /\ c + 1 \in DOMAIN profile
        /\ RLt(level, profile[c]) # RLt(level, profile[c + 1])

\* surface.py:59-60  find_contours(numba_window_average(bottom_depth[t], 7), foreset_depth[t])
ContourFound(t) ==
    HasContour(WindowAverage(env_bottom_depth[t], EnvWindow), env_foreset_depth[t])

\* surface.py:126-134  rasterize(domain -> deltatop, delta edge -> deltafront,
\* deep marine -> prodelta): a later shape overwrites an earlier one
Rasterize(domain, delta_edge, deep_marine) ==
    [c \in EnvColumns |->
        IF c \in deep_marine THEN SubEnv.prodelta
        ELSE IF c \in delta_edge THEN SubEnv.deltafront
        ELSE IF c \in domain THEN SubEnv.deltatop
        ELSE SubEnv.undefined]

EnvIdle ==
    /\ env_bottom_depth = <<>>
    /\ env_foreset_depth = <<>>
    /\ environments = <<>>
    /\ env_t = 0
    /\ env_status = "idle"

\* surface.py:55-56  the state before the loop
EnvEntry ==
    /\ env_bottom_depth \in [0..(EnvT - 1) -> EnvProfiles]
    /\ env_bottom_depth[0] = [c \in EnvColumns |-> 0]
    /\ env_foreset_depth \in [0..(EnvT - 1) -> EnvLevels]
    /\ env_foreset_depth[0] = <<1, 2>>
    /\ environments = [t \in 0..(EnvT - 1) |-> [c \in EnvColumns |-> SubEnv.undefined]]
    /\ env_t = 1
    /\ env_status = "running"

\* surface.py:60-63  np.argmax([len(c) for c in foreset_contours]) of an empty
\* list raises ValueError, which nothing catches
EnvNoContourRaises ==
    /\ env_status = "running"
    /\ env_t < EnvT
    /\ ~ContourFound(env_t)
    /\ env_status' = "raised"
    /\ UNCHANGED <<env_bottom_depth, env_foreset_depth, environments, env_t>>
    /\ UNCHANGED notEnv

\* surface.py:64-77  snapping or offsetting the contour fails (an empty
\* coordinate list, no topset part crossing the boundary); nothing catches it
EnvGeometryRaises ==
    /\ env_status = "running"
    /\ env_t < EnvT
    /\ ContourFound(env_t)
    /\ env_status' = "raised"
    /\ UNCHANGED <<env_bottom_depth, env_foreset_depth, environments, env_t>>
    /\ UNCHANGED notEnv

\* surface.py:57-84  an iteration that finds a contour and rasterises the areas
EnvIteration ==
    /\ env_status = "running"
    /\ env_t < EnvT
    /\ ContourFound(env_t)
    /\ \E f \in 1..(EnvCols - 1), w \in 1..2 :
          environments' =
              [environments EXCEPT ![env_t] =
                  Rasterize(EnvColumns,
                            {c \in EnvColumns : f - w <= c /\ c <= f},
                            {c \in EnvColumns : c >= f})]
    /\ env_t' = env_t + 1
    /\ UNCHANGED <<env_bottom_depth, env_foreset_depth, env_status>>
    /\ UNCHANGED notEnv

\* surface.py:86  return environments, foreset_contours
EnvReturn ==
    /\ env_status = "running"
    /\ env_t = EnvT
    /\ env_status' = "returned"
    /\ UNCHANGED <<env_bottom_depth, env_foreset_depth, environments, env_t>>
    /\ UNCHANGED notEnv

(* C7: when no contour is found at a timestep t > 0, or snapping/splitting  *)
(* fails, detect_depositional_environments does not raise, the raster it    *)
(* stores for t is a copy of the raster of t - 1, and later timesteps are   *)
(* still processed.                                                         *)
C7_FallsBackToPreviousRaster ==
    /\ env_status # "raised"
    /\ \A t \in 1..(env_t - 1) :
          ~ContourFound(t) => environments[t] = environments[t - 1]
    /\ env_status = "returned" => env_t = EnvT

----------------------------------------------------------------------------
(* utils.skeleton_endpoints                                                 *)
(* A boolean raster is the set of its non-zero pixels <<row, col>>.         *)

SkelRows == 3      \* rows of the skeleton raster
SkelCols == 3      \* columns of the skeleton raster

Pixels(nrows, ncols) == (0..(nrows - 1)) \X (0..(ncols - 1))

Offsets == {-1, 0, 1} \X {-1, 0, 1}

\* utils.py:294-303  skeleton[row_neigh, col_neigh] indexes past the last row or
\* column for a pixel that lies on it: IndexError
NeighbourhoodOutOfBounds(sk, nrows, ncols) ==
    \E p \in sk : p[1] + 1 >= nrows \/ p[2] + 1 >= ncols

\* utils.py:294-307  np.sum(skeleton[row_neigh, col_neigh].ravel() != 0): the 3x3
\* index arrays r-1..r+1, c-1..c+1, where numpy reads index -1 as the last row
\* or column
NeighbourhoodSum(sk, p, nrows, ncols) ==
    Cardinality({o \in Offsets :
        <<PyIndex(p[1] + o[1], nrows), PyIndex(p[2] + o[2], ncols)>> \in sk})

\* utils.py:286-309  the list skel_coords of a call that returns
SkeletonEndpoints(sk, nrows, ncols) ==
    {p \in sk : NeighbourhoodSum(sk, p, nrows, ncols) = 2}

SkelIdle ==
    /\ skeleton = {}
    /\ skel_coords = {}
    /\ skel_status = "idle"

SkelEntry ==
    /\ skeleton \in SUBSET Pixels(SkelRows, SkelCols)
    /\ skel_coords = {}
    /\ skel_status = "entry"

\* utils.py:284-309  skeleton_endpoints returning its list
SkeletonEndpointsReturns ==
    /\ skel_status = "entry"
    /\ ~NeighbourhoodOutOfBounds(skeleton, SkelRows, SkelCols)
    /\ skel_coords' = SkeletonEndpoints(skeleton, SkelRows, SkelCols)
    /\ skel_status' = "returned"
    /\ UNCHANGED skeleton
    /\ UNCHANGED notSkel

\* utils.py:303  skeleton_endpoints raising IndexError
SkeletonEndpointsRaises ==
    /\ skel_status = "entry"
    /\ NeighbourhoodOutOfBounds(skeleton, SkelRows, SkelCols)
    /\ skel_status' = "raised"
    /\ UNCHANGED <<skeleton, skel_coords>>
    /\ UNCHANGED notSkel

\* the 8-connected skeleton neighbours of p inside the raster
Neighbours8(sk, p, nrows, ncols) ==
    {q \in sk : q # p /\ Abs(q[1] - p[1]) <= 1 /\ Abs(q[2] - p[2]) <= 1}

\* a straight 1-pixel-wide line of length >= 2: a run of pixels from a in the
\* direction d (horizontal, vertical or diagonal)
StraightLines(nrows, ncols) ==
    { L \in SUBSET Pixels(nrows, ncols) :
        \E a \in Pixels(nrows, ncols), d \in {<<0, 1>>, <<1, 0>>, <<1, 1>>, <<1, -1>>},
           n \in 2..Max(nrows, ncols) :
            L = {<<a[1] + i * d[1], a[2] + i * d[2]>> : i \in 0..(n - 1)} }

LineExtremities(L) ==
    {p \in L : Cardinality({q \in L : q # p /\ Abs(q[1] - p[1]) <= 1
                                           /\ Abs(q[2] - p[2]) <= 1}) = 1}

(* C10: skeleton_endpoints returns exactly the skeleton pixels with exactly *)
(* one 8-connected skeleton neighbour, positions outside the raster never   *)
(* counting; for a straight line of length >= 2 anywhere in the raster,     *)
(* the border included, it returns exactly the two extremities.             *)
C10_EndpointsAreDegreeOnePixels ==
    skel_status # "entry" =>
        /\ skel_status = "returned"
        /\ skel_coords =
              {p \in skeleton :
                  Cardinality(Neighbours8(skeleton, p, SkelRows, SkelCols)) = 1}
        /\ skeleton \in StraightLines(SkelRows, SkelCols)
              => /\ Cardinality(skel_coords) = 2
                 /\ skel_coords = LineExtremities(skeleton)

----------------------------------------------------------------------------
(* surface.detect_elements (gtpost/analyze/surface.py)                      *)
(* Integer rasters are functions from pixels to values, boolean rasters     *)
(* the sets of their True pixels.  Depths, bed level changes and sand       *)
(* fractions are integers in units that make the thresholds integers.       *)

ElemT == 2         \* timesteps of the input rasters (subenvironment.shape[0])
ElemRows == 13     \* rows of the rasters
ElemCols == 5      \* columns of the rasters
EndpointMinRow == 10          \* surface.py:323  ch[0] > 10
ClosingRadius == 4            \* surface.py:380  morphology.disk(4)
SmallObjectSize == 10         \* surface.py:381  min_size=10

ElemPixels == Pixels(ElemRows, ElemCols)
ElemTimes == 0..(ElemT - 1)

\* the settings of config["classification"] that detect_elements reads
ElemConfigs ==
    { [delta_top_subaqeous_depth |-> 1,
       deltafront_detection_minimal_sandfraction |-> 5,
       mouthbar_detection_search_radius |-> 5,
       mouthbar_detection_critical_bl_change_df |-> df,
       mouthbar_detection_critical_bl_change_ch |-> 1,
       mouthbar_detection_critical_bl_change_dt |-> dt] : df \in {1, 2}, dt \in {1, 3} }

\* surface.py:265-282  the unpacked settings
delta_top_subaqeous_depth(config) == config.delta_top_subaqeous_depth
delta_front_min_sandfrac(config) == config.deltafront_detection_minimal_sandfraction
mouthbar_search_radius(config) == config.mouthbar_detection_search_radius
mouthbar_critical_bl_change_df(config) == config.mouthbar_detection_critical_bl_change_df
mouthbar_critical_bl_change_ch(config) == config.mouthbar_detection_critical_bl_change_ch
\* surface.py:280-282  read from the _ch key
mouthbar_critical_bl_change_dt(config) == config.mouthbar_detection_critical_bl_change_ch

\* a vertical skeleton line in one column
ColumnLine(col, first, last) == {p \in ElemPixels : p[2] = col /\ first <= p[1] /\ p[1] <= last}

\* the channel skeletons of the scenes
ElemSkeletons ==
    { {},
      ColumnLine(2, 5, ElemRows - 2),
      ColumnLine(2, 5, ElemRows - 1),
      ColumnLine(0, 5, ElemRows - 2),
      ColumnLine(ElemCols - 1, 5, ElemRows - 2) }

\* the arguments of a call: sub-environments in bands of rows (delta top,
\* then undefined, then delta front, then prodelta), a channel that is its
\* own skeleton, uniform bed level change and sand fraction, and a uniform
\* depth that differs from timestep to timestep; with gap, the cell in the
\* last row and column has no sub-environment
ElemScenes ==
    [ bands : {<<ElemRows, ElemRows, ElemRows>>, <<5, 5, ElemRows>>, <<0, 0, 0>>,
               <<3, 5, 8>>},
      skel : ElemSkeletons,
      deposit : {0, 2},
      sand : {0, 8},
      gap : BOOLEAN,
      depth : [1..(ElemT - 1) -> {0, 1, 2}] ]

SceneSubenvironment(sc) ==
    [p \in ElemPixels |->
        IF sc.gap /\ p = <<ElemRows - 1, ElemCols - 1>> THEN SubEnv.undefined
        ELSE IF p[1] < sc.bands[1] THEN SubEnv.deltatop
        ELSE IF p[1] < sc.bands[2] THEN SubEnv.undefined
        ELSE IF p[1] < sc.bands[3] THEN SubEnv.deltafront
        ELSE SubEnv.prodelta]

Uniform(v) == [p \in ElemPixels |-> v]

\* the arrays the caller passes, by parameter name; timestep 0 is never read
ElemArguments(sc) ==
    [ subenvironment |->
          [t \in ElemTimes |-> IF t = 0 THEN Uniform(SubEnv.undefined)
                               ELSE SceneSubenvironment(sc)],
      channels |-> [t \in ElemTimes |-> IF t = 0 THEN {} ELSE sc.skel],
      channel_skeleton |-> [t \in ElemTimes |-> IF t = 0 THEN {} ELSE sc.skel],
      bottom_depth |-> [t \in ElemTimes |-> Uniform(IF t = 0 THEN 0 ELSE sc.depth[t])],
      deposit_height |-> [t \in ElemTimes |-> Uniform(IF t = 0 THEN 0 ELSE sc.deposit)],
      sand_fraction |-> [t \in ElemTimes |-> Uniform(IF t = 0 THEN 0 ELSE sc.sand)],
      foreset_depth |-> [t \in ElemTimes |-> 3] ]

ElemInputNames ==
    {"subenvironment", "channels", "channel_skeleton", "bottom_depth",
     "deposit_height", "sand_fraction", "foreset_depth"}

\* archels = subenvironment: the result array would be the argument itself
ArchelsBufferShared == "subenvironment"

\* surface.py:284  np.zeros_like(subenvironment) allocates a new array
ArchelsBuffer == "archels"

\* archels[t, :, :][condition] = value
Assign(raster, condition, value) ==
    [p \in DOMAIN raster |-> IF p \in condition THEN value ELSE raster[p]]

Where(raster, value) == {p \in DOMAIN raster : raster[p] = value}

\* the same rules with the channel rule applied first
ClassifyEnvironmentsChannelFirst(archels_t, sub, chan, depth, sand, config) ==
    LET a0 == Assign(archels_t, chan, ArchEl.channel)
        a1 == Assign(a0, Where(sub, SubEnv.prodelta), ArchEl.prodelta)
        a2 == Assign(a1, Where(sub, SubEnv.deltafront), ArchEl.deltafront)
        a3 == Assign(a2, {p \in Where(sub, SubEnv.prodelta) :
                              sand[p] > delta_front_min_sandfrac(config)},
                     ArchEl.deltafront)
        a4 == Assign(a3, Where(sub, SubEnv.deltatop), ArchEl.dtaqua)
    IN  Assign(a4, {p \in Where(sub, SubEnv.deltatop) :
                        depth[p] < delta_top_subaqeous_depth(config)},
               ArchEl.dtair)

\* surface.py:293-319  the rules from sub-environments, in the order of the code
ClassifyEnvironments(archels_t, sub, chan, depth, sand, config) ==
    LET a1 == Assign(archels_t, Where(sub, SubEnv.prodelta), ArchEl.prodelta)
        a2 == Assign(a1, Where(sub, SubEnv.deltafront), ArchEl.deltafront)
        a3 == Assign(a2, {p \in Where(sub, SubEnv.prodelta) :
                              sand[p] > delta_front_min_sandfrac(config)},
                     ArchEl.deltafront)
        a4 == Assign(a3, Where(sub, SubEnv.deltatop), ArchEl.dtaqua)
        a5 == Assign(a4, {p \in Where(sub, SubEnv.deltatop) :
                              depth[p] < delta_top_subaqeous_depth(config)},
                     ArchEl.dtair)
    IN  Assign(a5, chan, ArchEl.channel)

\* surface.py:324-329  np.ma.masked_where(condition, mask).mask is the scalar
\* nomask when the condition holds nowhere; the sum of two scalars is no 2-D
\* array and convolve2d raises ValueError
ConvolveRaises(arch) ==
    Where(arch, ArchEl.dtaqua) = {} /\ Where(arch, ArchEl.deltafront) = {}

\* the offsets a k x k kernel of ones reaches in mode="same" (k odd)
KernelOffsets(k) ==
    (((k - 1) \div 2) - (k - 1)..((k - 1) \div 2)) \X
    (((k - 1) \div 2) - (k - 1)..((k - 1) \div 2))

\* surface.py:330-332  convolve2d(delta_top + delta_front, mb_kernel,
\* mode="same", boundary="wrap") at pixel p
AllowedArea(arch, k, p) ==
    Cardinality({o \in KernelOffsets(k) :
        arch[<<(p[1] + o[1]) % ElemRows, (p[2] + o[2]) % ElemCols>>]
            \in {ArchEl.dtaqua, ArchEl.deltafront}})

\* surface.py:322-340  the endpoints mouth bars are searched around
ChannelEndpoints(arch, skel, config) ==
    {ce \in SkeletonEndpoints(skel, ElemRows, ElemCols) :
        /\ ce[1] > EndpointMinRow
        /\ AllowedArea(arch, mouthbar_search_radius(config), ce)
               > mouthbar_search_radius(config) * 4}

\* utils.py:312-322  create_circular_mask(h, w, center, radius) with
\* radius = diameter / 2
CircularMask(center, diameter) ==
    {p \in ElemPixels :
        4 * ((p[1] - center[1]) * (p[1] - center[1])
             + (p[2] - center[2]) * (p[2] - center[2])) <= diameter * diameter}

\* surface.py:341-356  mb_mask; bottom_depth < foreset_depth[t] / 1.5
MouthbarMask(arch, skel, depth, foreset, config) ==
    UNION { {p \in CircularMask(ce, mouthbar_search_radius(config)) :
                /\ arch[p] # ArchEl.dtair
                /\ arch[p] # ArchEl.prodelta
                /\ 3 * depth[p] < 2 * foreset}
            : ce \in ChannelEndpoints(arch, skel, config) }

\* surface.py:359-376  the mouth bar cells before the cleanup
MouthbarCandidates(arch, skel, depth, deposit, foreset, config) ==
    {p \in MouthbarMask(arch, skel, depth, foreset, config) :
        \/ arch[p] = ArchEl.deltafront
           /\ deposit[p] > mouthbar_critical_bl_change_df(config)
        \/ arch[p] = ArchEl.dtaqua
           /\ deposit[p] > mouthbar_critical_bl_change_dt(config)
        \/ arch[p] = ArchEl.channel
           /\ deposit[p] > mouthbar_critical_bl_change_ch(config)}

\* skimage.morphology.disk(radius)
Disk(radius) ==
    {o \in ((-radius)..radius) \X ((-radius)..radius) :
        o[1] * o[1] + o[2] * o[2] <= radius * radius}

\* skimage binary_dilation: outside the raster counts as False
BinaryDilation(image, footprint) ==
    {p \in ElemPixels : \E o \in footprint : <<p[1] - o[1], p[2] - o[2]>> \in image}

\* skimage binary_erosion: outside the raster counts as True
BinaryErosion(image, footprint) ==
    {p \in ElemPixels :
        \A o \in footprint :
            <<p[1] + o[1], p[2] + o[2]>> \in ElemPixels
                => <<p[1] + o[1], p[2] + o[2]>> \in image}

\* skimage binary_closing: dilation, then erosion
BinaryClosing(image, footprint) ==
    BinaryErosion(BinaryDilation(image, footprint), footprint)

\* the pixels of image connected to those of S through shared edges
RECURSIVE Flood(_, _)
Flood(image, S) ==
    LET N == S \cup {q \in image : \E p \in S :
                        Abs(q[1] - p[1]) + Abs(q[2] - p[2]) = 1}
    IN  IF N = S THEN S ELSE Flood(image, N)

\* skimage remove_small_objects(image, min_size): the 1-connected components
\* of at least min_size pixels
RECURSIVE RemoveSmallObjects(_, _)
RemoveSmallObjects(image, min_size) ==
    IF image = {} THEN {}
    ELSE LET comp == Flood(image, {CHOOSE p \in image : TRUE})
         IN  (IF Cardinality(comp) >= min_size THEN comp ELSE {})
                 \cup RemoveSmallObjects(image \ comp, min_size)

\* surface.py:378-383  the cleanup, skipped when the mask is the scalar nomask
MouthbarCleanup(candidates) ==
    IF candidates # {}
    THEN RemoveSmallObjects(BinaryClosing(candidates, Disk(ClosingRadius)),
                            SmallObjectSize)
    ELSE {}

\* surface.py:288-386  the raster archels[t] after the iteration for t
ClassifyTimestep(archels_t, sub, chan, skel, depth, deposit, sand, foreset, config) ==
    LET arch == ClassifyEnvironments(archels_t, sub, chan, depth, sand, config)
    IN  Assign(arch,
               MouthbarCleanup(
                   MouthbarCandidates(arch, skel, depth, deposit, foreset, config)),
               ArchEl.mouthbar)

\* the iteration for t raises: IndexError in skeleton_endpoints, or
\* ValueError in convolve2d
IterationRaises(h, t, config) ==
    \/ NeighbourhoodOutOfBounds(h.channel_skeleton[t], ElemRows, ElemCols)
    \/ ConvolveRaises(ClassifyEnvironments(h[ArchelsBuffer][t], h.subenvironment[t],
                                           h.channels[t], h.bottom_depth[t],
                                           h.sand_fraction[t], config))

ElemIdle ==
    /\ elem_heap = <<>>
    /\ elem_scene = <<>>
    /\ elem_config = <<>>
    /\ elem_t = 0
    /\ elem_status = "idle"
    /\ elem_call = 0
    /\ elem_first = <<>>

\* the caller holds its arrays and calls detect_elements
ElemEntry ==
    /\ elem_scene \in ElemScenes
    /\ elem_config \in ElemConfigs
    /\ elem_heap = [n \in ElemInputNames \cup {"archels"} |->
                       IF n = "archels" THEN <<>> ELSE ElemArguments(elem_scene)[n]]
    /\ elem_t = 0
    /\ elem_status = "entry"
    /\ elem_call = 1
    /\ elem_first = <<>>

\* surface.py:265-286  unpack the settings, allocate archels
DetectElementsCall ==
    /\ elem_status = "entry"
    /\ elem_heap' = [elem_heap EXCEPT
                        ![ArchelsBuffer] = [t \in ElemTimes |-> Uniform(ArchEl.undefined)]]
    /\ elem_t' = 1
    /\ elem_status' = "running"
    /\ UNCHANGED <<elem_scene, elem_config, elem_call, elem_first>>
    /\ UNCHANGED notElem

\* surface.py:287-386  one iteration of the loop over the timesteps
DetectElementsIteration ==
    /\ elem_status = "running"
    /\ elem_t < ElemT
    /\ ~IterationRaises(elem_heap, elem_t, elem_config)
    /\ elem_heap' = [elem_heap EXCEPT
          ![ArchelsBuffer][elem_t] =
              ClassifyTimestep(elem_heap[ArchelsBuffer][elem_t],
                               elem_heap.subenvironment[elem_t],
                               elem_heap.channels[elem_t],
                               elem_heap.channel_skeleton[elem_t],
                               elem_heap.bottom_depth[elem_t],
                               elem_heap.deposit_height[elem_t],
                               elem_heap.sand_fraction[elem_t],
                               elem_heap.foreset_depth[elem_t],
                               elem_config)]
    /\ elem_t' = elem_t + 1
    /\ UNCHANGED <<elem_scene, elem_config, elem_status, elem_call, elem_first>>
    /\ UNCHANGED notElem

\* surface.py:322, 330  an iteration that raises; the exception leaves the function
DetectElementsRaises ==
    /\ elem_status = "running"
    /\ elem_t < ElemT
    /\ IterationRaises(elem_heap, elem_t, elem_config)
    /\ elem_status' = "raised"
    /\ UNCHANGED <<elem_heap, elem_scene, elem_config, elem_t, elem_call, elem_first>>
    /\ UNCHANGED notElem

\* surface.py:388  return archels
DetectElementsReturns ==
    /\ elem_status = "running"
    /\ elem_t = ElemT
    /\ elem_status' = "returned"
    /\ UNCHANGED <<elem_heap, elem_scene, elem_config, elem_t, elem_call, elem_first>>
    /\ UNCHANGED notElem

\* the caller keeps the outcome and calls again with the same arrays
ElemCallAgain ==
    /\ elem_status \in {"returned", "raised"}
    /\ elem_call = 1
    /\ elem_first' = <<elem_status, elem_heap[ArchelsBuffer]>>
    /\ elem_call' = 2
    /\ elem_t' = 0
    /\ elem_status' = "entry"
    /\ UNCHANGED <<elem_heap, elem_scene, elem_config>>
    /\ UNCHANGED notElem

(* C8: detect_elements is a pure function of its inputs: a second call with *)
(* the same arrays and config returns the raster the first call returned,   *)
(* and no input array is modified by a call.                                *)
C8_DetectElementsIsPure ==
    /\ \A n \in ElemInputNames : elem_heap[n] = ElemArguments(elem_scene)[n]
    /\ elem_call = 2 /\ elem_status \in {"returned", "raised"}
          => /\ elem_first[1] = elem_status
             /\ elem_status = "returned" => elem_first[2] = elem_heap.archels

\* a second call has returned a raster with mouth bar cells
C8_Witness ==
    /\ elem_call = 2
    /\ elem_status = "returned"
    /\ \E t \in ElemTimes : Where(elem_heap.archels[t], ArchEl.mouthbar) # {}

\* the cells of the search mask whose bed level change exceeds the threshold
\* configured for their own class
OwnThresholdCandidates(arch, skel, depth, deposit, foreset, config) ==
    {p \in MouthbarMask(arch, skel, depth, foreset, config) :
        \/ arch[p] = ArchEl.deltafront
           /\ deposit[p] > config.mouthbar_detection_critical_bl_change_df
        \/ arch[p] = ArchEl.dtaqua
           /\ deposit[p] > config.mouthbar_detection_critical_bl_change_dt
        \/ arch[p] = ArchEl.channel
           /\ deposit[p] > config.mouthbar_detection_critical_bl_change_ch}

(* C17: each candidate class is tested against its own configured bed level *)
(* change threshold: the mouth bars of a timestep are those that come from  *)
(* the delta-front, subaqueous delta-top and channel cells of the search    *)
(* mask that exceed the delta-front, delta-top and channel threshold.       *)
C17_ClassSpecificThresholds ==
    elem_status = "returned" =>
        \A t \in 1..(ElemT - 1) :
            Where(elem_heap.archels[t], ArchEl.mouthbar) =
                MouthbarCleanup(
                    OwnThresholdCandidates(
                        ClassifyEnvironments(Uniform(ArchEl.undefined),
                                             elem_heap.subenvironment[t],
                                             elem_heap.channels[t],
                                             elem_heap.bottom_depth[t],
                                             elem_heap.sand_fraction[t],
                                             elem_config),
                        elem_heap.channel_skeleton[t],
                        elem_heap.bottom_depth[t],
                        elem_heap.deposit_height[t],
                        elem_heap.foreset_depth[t],
                        elem_config))

\* the mouth bar mask of timestep t after the cleanup, from the arguments
FinalMouthbarMask(t) ==
    MouthbarCleanup(
        MouthbarCandidates(
            ClassifyEnvironments(Uniform(ArchEl.undefined),
                                 elem_heap.subenvironment[t], elem_heap.channels[t],
                                 elem_heap.bottom_depth[t], elem_heap.sand_fraction[t],
                                 elem_config),
            elem_heap.channel_skeleton[t], elem_heap.bottom_depth[t],
            elem_heap.deposit_height[t], elem_heap.foreset_depth[t], elem_config))

\* the code of the last applicable rule at cell p of timestep t, by
\* precedence, for the final mouth bar mask of the timestep
LastApplicableRule(t, p, mouthbars) ==
    LET sub == elem_heap.subenvironment[t][p]
    IN  IF p \in mouthbars THEN ArchEl.mouthbar
        ELSE IF p \in elem_heap.channels[t] THEN ArchEl.channel
        ELSE IF sub = SubEnv.deltatop
             THEN IF elem_heap.bottom_depth[t][p] < elem_config.delta_top_subaqeous_depth
                  THEN ArchEl.dtair ELSE ArchEl.dtaqua
        ELSE IF sub = SubEnv.deltafront THEN ArchEl.deltafront
        ELSE IF sub = SubEnv.prodelta
             THEN IF elem_heap.sand_fraction[t][p]
                        > elem_config.deltafront_detection_minimal_sandfraction
                  THEN ArchEl.deltafront ELSE ArchEl.prodelta
        ELSE ArchEl.undefined

(* C18: for every timestep t >= 1 and every cell, detect_elements outputs   *)
(* the code of the last applicable rule in the order prodelta, delta front  *)
(* (with sandy prodelta), subaqueous then subaerial delta top, channel,     *)
(* mouth bar; a cell of undefined sub-environment that is neither channel   *)
(* nor mouth bar stays undefined.                                           *)
C18_LastApplicableRuleWins ==
    elem_status = "returned" =>
        \A t \in 1..(ElemT - 1) :
            LET mouthbars == FinalMouthbarMask(t)
            IN  \A p \in ElemPixels :
                    elem_heap.archels[t][p] = LastApplicableRule(t, p, mouthbars)

\* a returned raster with mouth bar, channel, subaqueous delta top and
\* undefined cells, delta front from sandy prodelta, and a channel across the
\* delta front
C18_Witness ==
    /\ elem_status = "returned"
    /\ \E t \in 1..(ElemT - 1) :
          /\ Where(elem_heap.archels[t], ArchEl.mouthbar) # {}
          /\ Where(elem_heap.archels[t], ArchEl.channel) # {}
          /\ Where(elem_heap.archels[t], ArchEl.dtaqua) # {}
          /\ Where(elem_heap.archels[t], ArchEl.undefined) # {}
          /\ \E p \in ElemPixels :
                /\ elem_heap.subenvironment[t][p] = SubEnv.prodelta
                /\ elem_heap.archels[t][p] = ArchEl.deltafront
          /\ \E p \in elem_heap.channels[t] :
                elem_heap.subenvironment[t][p] = SubEnv.deltafront

\* the classes of timestep t just before the mouth bar assignment
BeforeMouthbars(t) ==
    ClassifyEnvironments(Uniform(ArchEl.undefined),
                         elem_heap.subenvironment[t], elem_heap.channels[t],
                         elem_heap.bottom_depth[t], elem_heap.sand_fraction[t],
                         elem_config)

(* C19: every cell finally classified mouth bar at timestep t lies within   *)
(* the search radius of a retained channel-skeleton endpoint of t and was   *)
(* delta front, subaqueous delta top or channel just before the mouth bar   *)
(* assignment: closing and small-object removal add no cell outside that    *)
(* set, and without a retained endpoint no cell is mouth bar.               *)
C19_MouthbarsNearEndpointsOnly ==
    elem_status = "returned" =>
        \A t \in 1..(ElemT - 1) :
            LET arch == BeforeMouthbars(t)
                ends == ChannelEndpoints(arch, elem_heap.channel_skeleton[t], elem_config)
                r == elem_config.mouthbar_detection_search_radius
            IN  \A p \in Where(elem_heap.archels[t], ArchEl.mouthbar) :
                    /\ arch[p] \in {ArchEl.deltafront, ArchEl.dtaqua, ArchEl.channel}
                    /\ \E ce \in ends :
                          (p[1] - ce[1]) * (p[1] - ce[1])
                              + (p[2] - ce[2]) * (p[2] - ce[2]) <= r * r

(* C9: detect_elements never raises for well-shaped input rasters, whether  *)
(* a timestep has no delta-front and no subaqueous delta-top cells, no      *)
(* channel cells, no skeleton endpoints, or skeleton pixels on the last row *)
(* or column of the raster.                                                 *)
C9_DetectElementsNeverRaises ==
    elem_status # "raised"

----------------------------------------------------------------------------
(* window_ops.NumbaWindow and the numba_window_* functions                  *)
(* (gtpost/analyze/window_ops.py).  Raster values are rationals, a missing  *)
(* value is NaN.  A distance is kept as its square.                         *)

WinRows == 2       \* rows of the raster
WinCols == 3       \* columns of the raster
MaxWindow == 3     \* window sizes are 0..MaxWindow

WinPixels == Pixels(WinRows, WinCols)

\* the values of a raster without missing cells: a ramp, and a checkerboard
WinPatterns ==
    { [p \in WinPixels |-> <<p[1] * WinCols + p[2], 1>>],
      [p \in WinPixels |-> <<(p[1] + p[2]) % 2, 1>>] }

\* the rasters passed to the window functions: a pattern with any set of
\* missing cells
WinRasters ==
    { [p \in WinPixels |-> IF p \in missing THEN NaN ELSE pattern[p]] :
        missing \in SUBSET WinPixels, pattern \in WinPatterns }

WinOps == {"average", "minimum", "maximum", "minimum_distance_min_max",
           "difference_between_minimum", "difference_between_maximum"}

\* window_ops.py:47-53  array.shape[0], array.shape[1]
row_max(array) == Cardinality({p[1] : p \in DOMAIN array})
col_max(array) == Cardinality({p[2] : p \in DOMAIN array})

\* window_ops.py:42-45  __init__ accepts the size
NumbaWindowInitAcceptsAll(size) == TRUE

NumbaWindowInit(size) == size % 2 = 1

\* the radius of a window that always reaches the neighbouring cells
window_radius_at_least_one(size) == ((size - 1) \div 2) + 1

\* window_ops.py:59-61  int((self.size - 1) / 2)
window_radius(size) == (size - 1) \div 2

\* the window indices without the updates at the edges
get_mask_indices_unclipped(array, center, size) ==
    <<center[1] - window_radius(size), center[1] + window_radius(size) + 1,
      center[2] - window_radius(size), center[2] + window_radius(size) + 1>>

\* window_ops.py:63-90  top, bottom, left, right of the window, kept in range
get_mask_indices_from_center(array, center, size) ==
    LET top_idx == center[1] - window_radius(size)
        bottom_idx == center[1] + window_radius(size) + 1
        left_idx == center[2] - window_radius(size)
        right_idx == center[2] + window_radius(size) + 1
    IN  << IF top_idx < 0 THEN 0 ELSE top_idx,
           IF bottom_idx > row_max(array) THEN row_max(array) ELSE bottom_idx,
           IF left_idx < 0 THEN 0 ELSE left_idx,
           IF right_idx > col_max(array) THEN col_max(array) ELSE right_idx >>

\* the indices a slice lo:hi selects on an axis of length n: a negative bound
\* counts from the end, and the bounds are clamped to the axis
SliceIndices(lo, hi, n) ==
    LET start == Max(0, Min(n, PyIndex(lo, n)))
        stop == Max(0, Min(n, PyIndex(hi, n)))
    IN  {i \in 0..(n - 1) : start <= i /\ i < stop}

\* window_ops.py:92-99  the cells of self.array[top:bottom, left:right]
window(array, center, size) ==
    LET idx == get_mask_indices_from_center(array, center, size)
    IN  SliceIndices(idx[1], idx[2], row_max(array))
            \X SliceIndices(idx[3], idx[4], col_max(array))

NotNaN(array, cells) == {q \in cells : array[q] # NaN}

RECURSIVE RSumCells(_, _)
RSumCells(array, cells) ==
    IF cells = {} THEN RZero
    ELSE LET q == CHOOSE x \in cells : TRUE
         IN  RAdd(array[q], RSumCells(array, cells \ {q}))

\* window_ops.py:101-102  np.nanmean(self.window())
window_mean(array, center, size) ==
    LET valid == NotNaN(array, window(array, center, size))
    IN  IF valid = {} THEN NaN
        ELSE RDiv(RSumCells(array, valid), <<Cardinality(valid), 1>>)

\* window_ops.py:104-105  np.nanmax(self.window())
window_max(array, center, size) ==
    LET valid == NotNaN(array, window(array, center, size))
    IN  IF valid = {} THEN NaN
        ELSE array[CHOOSE q \in valid : \A o \in valid : RLe(array[o], array[q])]

\* window_ops.py:107-108  np.nanmin(self.window())
window_min(array, center, size) ==
    LET valid == NotNaN(array, window(array, center, size))
    IN  IF valid = {} THEN NaN
        ELSE array[CHOOSE q \in valid : \A o \in valid : RLe(array[q], array[o])]

\* window_ops.py:110-124, 268-299  the least (squared) distance between a cell
\* holding the window minimum and a cell holding the window maximum
minimum_distance_min_max(array, center, size) ==
    LET valid == NotNaN(array, window(array, center, size))
        max_locs == {q \in valid : array[q] = window_max(array, center, size)}
        min_locs == {q \in valid : array[q] = window_min(array, center, size)}
    IN  IF valid = {} THEN NaN
        ELSE << SetMin({ (a[1] - b[1]) * (a[1] - b[1]) + (a[2] - b[2]) * (a[2] - b[2]) :
                            a \in min_locs, b \in max_locs }), 1 >>

\* a - b in floating point: NaN when either operand is
FSub(a, b) == IF a = NaN \/ b = NaN THEN NaN ELSE RSub(a, b)

\* window_ops.py:127-159
numba_window_average(array, window_size) ==
    [p \in DOMAIN array |-> window_mean(array, p, window_size)]

\* window_ops.py:162-194
numba_window_minimum(array, window_size) ==
    [p \in DOMAIN array |-> window_min(array, p, window_size)]

\* window_ops.py:197-228
numba_window_maximum(array, window_size) ==
    [p \in DOMAIN array |-> window_max(array, p, window_size)]

\* window_ops.py:231-264
numba_minimum_distance_min_max(array, window_size) ==
    [p \in DOMAIN array |-> minimum_distance_min_max(array, p, window_size)]

\* window_ops.py:302-333
numba_window_difference_between_minimum(array, window_size) ==
    [p \in DOMAIN array |-> FSub(window_min(array, p, window_size), array[p])]

\* window_ops.py:336-367
numba_window_difference_between_maximum(array, window_size) ==
    [p \in DOMAIN array |-> FSub(window_max(array, p, window_size), array[p])]

WindowFunction(op, array, window_size) ==
    CASE op = "average" -> numba_window_average(array, window_size)
      [] op = "minimum" -> numba_window_minimum(array, window_size)
      [] op = "maximum" -> numba_window_maximum(array, window_size)
      [] op = "minimum_distance_min_max" ->
             numba_minimum_distance_min_max(array, window_size)
      [] op = "difference_between_minimum" ->
             numba_window_difference_between_minimum(array, window_size)
      [] op = "difference_between_maximum" ->
             numba_window_difference_between_maximum(array, window_size)

WinIdle ==
    /\ win_array = <<>>
    /\ win_size = 0
    /\ win_op = "none"
    /\ win_output = <<>>
    /\ win_status = "idle"

\* the arguments of a call
WinEntry ==
    /\ win_array \in WinRasters
    /\ win_size \in 0..MaxWindow
    /\ win_op = "none"
    /\ win_output = <<>>
    /\ win_status = "entry"

\* a window function that builds its NumbaWindow, fills output and returns it
WindowFunctionReturns(op) ==
    /\ win_status = "entry"
    /\ NumbaWindowInit(win_size)
    /\ win_output' = WindowFunction(op, win_array, win_size)
    /\ win_op' = op
    /\ win_status' = "returned"
    /\ UNCHANGED <<win_array, win_size>>
    /\ UNCHANGED notWin

\* window_ops.py:42-45  NumbaWindow.__init__ raises ValueError before the loop
\* over the cells; the caller receives no raster
WindowFunctionRaises(op) ==
    /\ win_status = "entry"
    /\ ~NumbaWindowInit(win_size)
    /\ win_op' = op
    /\ win_status' = "raised"
    /\ UNCHANGED <<win_array, win_size, win_output>>
    /\ UNCHANGED notWin

\* the non-missing cells within (w - 1) / 2 rows and columns of p, inside the raster
ValidNeighbourhood(array, p, w) ==
    {q \in DOMAIN array :
        /\ 2 * Abs(q[1] - p[1]) <= w - 1
        /\ 2 * Abs(q[2] - p[2]) <= w - 1
        /\ array[q] # NaN}

(* C11: for an odd window size w, numba_window_average, _minimum and        *)
(* _maximum aggregate at every cell exactly the non-missing cells within    *)
(* (w - 1) / 2 rows and columns of it and inside the raster, and yield NaN  *)
(* where that neighbourhood has no non-missing cell.                        *)
C11_WindowAggregatesClippedNeighbourhood ==
    win_status = "returned" /\ win_op \in {"average", "minimum", "maximum"} =>
        \A p \in WinPixels :
            LET N == ValidNeighbourhood(win_array, p, win_size)
                out == win_output[p]
            IN  IF N = {} THEN out = NaN
                ELSE /\ out # NaN
                     /\ win_op = "average" =>
                            RMul(out, <<Cardinality(N), 1>>) = RSumCells(win_array, N)
                     /\ win_op = "minimum" =>
                            /\ \E q \in N : win_array[q] = out
                            /\ \A q \in N : RLe(out, win_array[q])
                     /\ win_op = "maximum" =>
                            /\ \E q \in N : win_array[q] = out
                            /\ \A q \in N : RLe(win_array[q], out)

\* an average over a window that is clipped at the edge and holds both missing
\* and non-missing cells, in a raster that also has a cell whose whole
\* neighbourhood is missing
C11_Witness ==
    /\ win_status = "returned"
    /\ win_op = "average"
    /\ win_size = 3
    /\ \E p \in WinPixels :
          /\ win_output[p] # NaN
          /\ p[2] = 0
          /\ \E q \in window(win_array, p, win_size) : win_array[q] = NaN
          /\ window(win_array, p, win_size) # WinPixels
    /\ \E p \in WinPixels : win_output[p] = NaN

(* C12: with window size 1 the average, minimum and maximum functions       *)
(* return the input raster, missing cells staying missing.                  *)
C12_WindowOfSizeOneIsIdentity ==
    /\ win_status = "returned"
    /\ win_size = 1
    /\ win_op \in {"average", "minimum", "maximum"}
    => win_output = win_array

C12_Witness ==
    /\ win_status = "returned"
    /\ win_size = 1
    /\ win_op = "maximum"
    /\ \E p, q \in WinPixels : win_output[p] = NaN /\ win_output[q] = <<1, 1>>

(* C13: every window function called with an even window size raises and   *)
(* hands no raster to its caller; with an odd size it returns.              *)
C13_EvenWindowSizeRaises ==
    win_status \in {"returned", "raised"} =>
        /\ win_size % 2 = 0 <=> win_status = "raised"
        /\ win_status = "raised" => win_output = <<>>
        /\ win_status = "returned" => DOMAIN win_output = WinPixels

C13_Witness ==
    /\ win_status = "raised"
    /\ win_size = 2
    /\ win_op = "difference_between_minimum"
    /\ win_output = <<>>

----------------------------------------------------------------------------
(* surface.slope (gtpost/analyze/surface.py)                                *)
(* A stack is a function from timesteps to rasters of integers; gradients   *)
(* and slopes are rationals.                                                *)

SlopeT == 2        \* timesteps of the stack
SlopeRows == 3     \* rows of the rasters
SlopeCols == 3     \* columns of the rasters
MaxSpike == 2      \* height of a single raised cell is 1..MaxSpike

SlopePixels == Pixels(SlopeRows, SlopeCols)

\* the stacks passed to slope(): flat at timestep 0, then a plane that tilts
\* by a per row and b per column with every timestep, with one cell raised by h
SlopeStacks ==
    { [t \in 0..(SlopeT - 1) |->
          [p \in SlopePixels |->
              1 + t * (a * p[1] + b * p[2]) + (IF t > 0 /\ p = spike[1] THEN spike[2] ELSE 0)]] :
        a \in -1..1, b \in -1..1,
        spike \in (SlopePixels \X (1..MaxSpike)) \cup {<<<<0, 0>>, 0>>} }

\* np.gradient along an axis of length n at index i, of the values f[0..n-1]:
\* central differences inside, one-sided differences at the two ends
Gradient(f, i, n) ==
    IF i = 0 THEN <<f[1] - f[0], 1>>
    ELSE IF i = n - 1 THEN <<f[n - 1] - f[n - 2], 1>>
    ELSE RNorm(<<f[i + 1] - f[i - 1], 2>>)

\* surface.py:19  np.gradient(array, axis=1)
slopex(array, t, p) ==
    Gradient([i \in 0..(SlopeRows - 1) |-> array[t][<<i, p[2]>>]], p[1], SlopeRows)

\* surface.py:20  np.gradient(array, axis=2)
slopey(array, t, p) ==
    Gradient([j \in 0..(SlopeCols - 1) |-> array[t][<<p[1], j>>]], p[2], SlopeCols)

\* slopex * slopey with its sign
slope_signed(array) ==
    [t \in DOMAIN array |->
        [p \in DOMAIN array[t] |-> RMul(slopex(array, t, p), slopey(array, t, p))]]

\* surface.py:18-22  np.abs(slopex * slopey)
slope(array) ==
    [t \in DOMAIN array |->
        [p \in DOMAIN array[t] |->
            RAbs(RMul(slopex(array, t, p), slopey(array, t, p)))]]

SlopeIdle ==
    /\ slope_array = <<>>
    /\ slope_result = <<>>
    /\ slope_status = "idle"

SlopeEntry ==
    /\ slope_array \in SlopeStacks
    /\ slope_result = <<>>
    /\ slope_status = "entry"

\* surface.py:18-22  a call of slope()
SlopeCall ==
    /\ slope_status = "entry"
    /\ slope_result' = slope(slope_array)
    /\ slope_status' = "returned"
    /\ UNCHANGED slope_array
    /\ UNCHANGED notSlope

----------------------------------------------------------------------------
(* Channel detection: surface.detect_channel_network and the two           *)
(* detection strategies.  The dataset's MEAN_H1 and MAX_UV stacks are kept  *)
(* in chan_dataset; chan_shared tells whether the arrays handed out by      *)
(* dataset.MEAN_H1[t, :, :].values are views of the dataset's memory (data  *)
(* held in memory) or fresh copies (data read lazily from file).  The       *)
(* skeleton, width and depth outputs are computed from channels_now alone   *)
(* and are not tracked.                                                     *)

ChanT == 2
ChanRows == 10
ChanCols == 14

\* surface.py:194, 212  depths above this are treated as missing
DepthSentinel == 500
\* surface.py:197, 214  flows below this are treated as missing
FlowSentinel == -500
\* surface.py:171, 177  min_size of remove_small_objects
ChannelMinSize == 100
\* surface.py:173  morphology.disk(2)
ChannelClosingRadius == 2

ChanPixels == Pixels(ChanRows, ChanCols)
ChanTimes == 0..(ChanT - 1)

ChanMethods == {"local", "static"}

\* the classification section of the configuration
ChanConfigs ==
    [channel_detection_method : ChanMethods,
     channel_detection_windowsize : {3},
     channel_detection_sensitivity : {<<1, 2>>}]

\* surface.py:140-146
channel_detection_method(config) == config.channel_detection_method
channel_detection_range(config) == config.channel_detection_windowsize
channel_detection_sensitivity(config) ==
    RAdd(<<-1, 1>>, config.channel_detection_sensitivity)

ChanPatterns == {"ramp", "ridge", "spike", "dotted"}

\* a depth raster: a ramp, a ridge along column 1, one value beyond the
\* sentinel, or a deep plain dotted with shallow cells
DepthRaster(pattern) ==
    [p \in ChanPixels |->
        CASE pattern = "ramp" -> <<p[1] + p[2], 1>>
          [] pattern = "ridge" -> IF p[2] = 1 THEN <<2, 1>> ELSE <<0, 1>>
          [] pattern = "dotted" -> IF p[1] % 2 = 0 /\ p[2] % 2 = 0
                                   THEN <<0, 1>> ELSE <<2, 1>>
          [] OTHER -> IF p = <<0, 0>> THEN <<DepthSentinel + 100, 1>>
                      ELSE <<1, 1>>]

\* a flow raster, likewise
FlowRaster(pattern) ==
    [p \in ChanPixels |->
        CASE pattern = "ramp" -> <<p[1] + p[2], 1>>
          [] pattern = "ridge" -> IF p[2] = 1 THEN <<2, 1>> ELSE <<0, 1>>
          [] pattern = "dotted" -> IF p[1] % 2 = 0 /\ p[2] % 2 = 0
                                   THEN <<0, 1>> ELSE <<2, 1>>
          [] OTHER -> IF p = <<0, 0>> THEN <<FlowSentinel - 100, 1>>
                      ELSE <<1, 1>>]

\* the delta top covers the columns left of top, the delta front the rest;
\* with hole, the cell <<2, 2>> belongs to the delta front as well
ChanScenes ==
    [top : {0, 1, ChanCols}, hole : BOOLEAN,
     depth : ChanPatterns, flow : ChanPatterns]

ChanSubenvironment(sc) ==
    [t \in ChanTimes |->
        [p \in ChanPixels |->
            IF p[2] < sc.top /\ ~(sc.hole /\ p = <<2, 2>>)
            THEN SubEnv.deltatop ELSE SubEnv.deltafront]]

\* the dataset as the caller holds it before the call
ChanDataset(sc) ==
    [MEAN_H1 |-> [t \in ChanTimes |-> DepthRaster(sc.depth)],
     MAX_UV |-> [t \in ChanTimes |-> FlowRaster(sc.flow)]]

\* a comparison of floats: False when either side is NaN
FLt(a, b) == a # NaN /\ b # NaN /\ RLt(a, b)

\* raster[condition] = np.nan, assigned in place
MaskInPlace(raster, condition) ==
    [p \in DOMAIN raster |-> IF p \in condition THEN NaN ELSE raster[p]]

\* surface.py:193-194, 211-212  the depth array after the two assignments
MaskedDepth(depth, subenvironment) ==
    LET outside == MaskInPlace(depth,
                       {p \in DOMAIN depth : subenvironment[p] # 1})
    IN  MaskInPlace(outside,
            {p \in DOMAIN depth : FLt(<<DepthSentinel, 1>>, outside[p])})

\* surface.py:196-197, 213-214  the flow array after the two assignments
MaskedFlow(flow, subenvironment) ==
    LET outside == MaskInPlace(flow,
                       {p \in DOMAIN flow : subenvironment[p] # 1})
    IN  MaskInPlace(outside,
            {p \in DOMAIN flow : FLt(outside[p], <<FlowSentinel, 1>>)})

\* surface.py:190-204  the mask returned and the arguments as the call
\* leaves them
channel_detection_local(depth, flow, subenvironment, range, sensitivity) ==
    LET depth_masked == MaskedDepth(depth, subenvironment)
        local_depth ==
            numba_window_difference_between_minimum(depth_masked, range)
        flow_masked == MaskedFlow(flow, subenvironment)
        local_flow ==
            numba_window_difference_between_minimum(flow_masked, range)
    IN  [channels_now |->
            {p \in DOMAIN subenvironment :
                /\ FLt(local_depth[p], sensitivity)
                /\ FLt(local_flow[p], sensitivity)},
         depth |-> depth_masked,
         flow |-> flow_masked,
         subenvironment |-> subenvironment]

\* surface.py:207-225  the mask returned and the arguments as the call
\* leaves them
channel_detection_static(depth, max_flow, subenvironment, sensitivity) ==
    LET minus == RSub(<<0, 1>>, sensitivity)
        channel_depth_requirement == RMul(<<5, 2>>, minus)
        channel_max_flow_requirement == RMul(<<3, 1>>, minus)
        channel_min_max_flow_requirement == RMul(<<6, 5>>, minus)
        depth_masked == MaskedDepth(depth, subenvironment)
        flow_masked == MaskedFlow(max_flow, subenvironment)
    IN  [channels_now |->
            {p \in DOMAIN subenvironment :
                /\ \/ FLt(channel_max_flow_requirement, flow_masked[p])
                   \/ FLt(channel_depth_requirement, depth_masked[p])
                /\ FLt(channel_min_max_flow_requirement, flow_masked[p])},
         depth |-> depth_masked,
         flow |-> flow_masked,
         subenvironment |-> subenvironment]

\* skimage binary_closing over a raster of the given pixels: dilation
\* (outside counts as False), then erosion (outside counts as True)
BinaryClosingOn(pixels, image, footprint) ==
    LET dilated == {p \in pixels : \E o \in footprint :
                       <<p[1] - o[1], p[2] - o[2]>> \in image}
    IN  {p \in pixels :
            \A o \in footprint :
                <<p[1] + o[1], p[2] + o[2]>> \in pixels
                    => <<p[1] + o[1], p[2] + o[2]>> \in dilated}

\* surface.py:170-174, 177  the cleanup of the detected mask
ChannelCleanup(method, channels_now) ==
    IF method = "local"
    THEN BinaryClosingOn(ChanPixels,
             RemoveSmallObjects(channels_now, ChannelMinSize),
             Disk(ChannelClosingRadius))
    ELSE RemoveSmallObjects(channels_now, ChannelMinSize)

ChanIdle ==
    /\ chan_dataset = <<>>
    /\ chan_subenvironment = <<>>
    /\ chan_scene = <<>>
    /\ chan_config = <<>>
    /\ chan_shared = FALSE
    /\ chan_call = <<>>
    /\ chan_channels = <<>>
    /\ chan_t = 0
    /\ chan_status = "idle"

ChanEntry ==
    /\ chan_scene \in ChanScenes
    /\ chan_dataset = ChanDataset(chan_scene)
    /\ chan_subenvironment = ChanSubenvironment(chan_scene)
    /\ chan_config \in ChanConfigs
    /\ chan_shared \in BOOLEAN
    /\ chan_call = <<>>
    /\ chan_channels = <<>>
    /\ chan_t = 0
    /\ chan_status = "entry"

\* surface.py:138-152  the configuration is read and the outputs allocated
DetectChannelNetworkCall ==
    /\ chan_status = "entry"
    /\ chan_channels' = [t \in ChanTimes |-> {}]
    /\ chan_t' = 1
    /\ chan_status' = "running"
    /\ UNCHANGED <<chan_dataset, chan_subenvironment, chan_scene,
                   chan_config, chan_shared, chan_call>>
    /\ UNCHANGED notChan

\* surface.py:153-186  one timestep with the strategy of the configuration.
\* The arrays passed are chan_dataset's own memory when chan_shared, so what
\* the strategy writes into them is written into the dataset.
DetectChannelNetworkIteration(method) ==
    /\ chan_status = "running"
    /\ chan_t < ChanT
    /\ channel_detection_method(chan_config) = method
    /\ LET t == chan_t
           subenvironment_now == chan_subenvironment[t]
           min_depth_now == chan_dataset.MEAN_H1[t]
           max_flow_now == chan_dataset.MAX_UV[t]
           done ==
               IF method = "local"
               THEN channel_detection_local(min_depth_now, max_flow_now,
                        subenvironment_now,
                        channel_detection_range(chan_config),
                        channel_detection_sensitivity(chan_config))
               ELSE channel_detection_static(min_depth_now, max_flow_now,
                        subenvironment_now,
                        channel_detection_sensitivity(chan_config))
       IN  /\ chan_call' = [depth |-> min_depth_now,
                            flow |-> max_flow_now,
                            subenvironment |-> subenvironment_now,
                            after |-> done]
           /\ chan_dataset' =
                 IF chan_shared
                 THEN [MEAN_H1 |->
                          [chan_dataset.MEAN_H1 EXCEPT ![t] = done.depth],
                       MAX_UV |->
                          [chan_dataset.MAX_UV EXCEPT ![t] = done.flow]]
                 ELSE chan_dataset
           /\ chan_subenvironment' =
                 [chan_subenvironment EXCEPT ![t] = done.subenvironment]
           /\ chan_channels' =
                 [chan_channels EXCEPT
                     ![t] = ChannelCleanup(method, done.channels_now)]
    /\ chan_t' = chan_t + 1
    /\ UNCHANGED <<chan_scene, chan_config, chan_shared, chan_status>>
    /\ UNCHANGED notChan

\* surface.py:187
DetectChannelNetworkReturns ==
    /\ chan_status = "running"
    /\ chan_t = ChanT
    /\ chan_status' = "returned"
    /\ UNCHANGED <<chan_dataset, chan_subenvironment, chan_scene,
                   chan_config, chan_shared, chan_call, chan_channels,
                   chan_t>>
    /\ UNCHANGED notChan

\* C20: channel detection only reads its inputs.  After every call of a
\* detection strategy the depth, flow and sub-environment rasters passed to
\* it are as they were before the call, and detect_channel_network leaves
\* the dataset's depth and flow stacks as the caller holds them.
C20_ChannelDetectionLeavesInputsUnchanged ==
    /\ chan_call # <<>> =>
          /\ chan_call.after.depth = chan_call.depth
          /\ chan_call.after.flow = chan_call.flow
          /\ chan_call.after.subenvironment = chan_call.subenvironment
    /\ chan_status \in {"running", "returned"} =>
          chan_dataset = ChanDataset(chan_scene)

(* C29: every cell marked as channel at a processed timestep t >= 1 is a    *)
(* delta-top cell of the sub-environment raster at t, with the local        *)
(* strategy (after small-object removal and closing) and with the static    *)
(* strategy (after small-object removal); timestep 0 has no channel cell.   *)
C29_ChannelsOnDeltaTopOnly ==
    chan_status \in {"running", "returned"} =>
        /\ chan_channels[0] = {}
        /\ \A t \in 1..(chan_t - 1) :
              \A p \in chan_channels[t] :
                  chan_subenvironment[t][p] = SubEnv.deltatop

----------------------------------------------------------------------------
(* Statistics per architectural element: statistics.get_stats_per_archel   *)
(* and volume_stats, over rasters indexed by <<t, row, column>>.            *)

StatT == 1
StatRows == 2
StatCols == 2

StatCells == (0..(StatT - 1)) \X (0..(StatRows - 1)) \X (0..(StatCols - 1))

\* statistics.py:39  len(classifications.ArchEl) - 1
array_length == Cardinality(DOMAIN ArchEl) - 1

ArchelPatterns == {"uniform", "rows", "mixed", "sparse"}
ThicknessPatterns == {"uniform", "ramp", "none"}
SortingPatterns == {"plain", "gap"}

\* the element codes of a classified stack
ArchelRaster(pattern) ==
    [c \in StatCells |->
        CASE pattern = "uniform" -> ArchEl.dtair
          [] pattern = "rows" -> IF c[2] % 2 = 0 THEN ArchEl.dtair
                                 ELSE ArchEl.dtaqua
          [] pattern = "mixed" -> IF c[2] = 0 THEN ArchEl.channel
                                  ELSE IF c[3] = 0 THEN ArchEl.deltafront
                                  ELSE ArchEl.prodelta
          [] OTHER -> IF c[3] = 0 THEN ArchEl.undefined ELSE ArchEl.mouthbar]

\* preserved thickness, never negative
ThicknessRaster(pattern) ==
    [c \in StatCells |->
        CASE pattern = "uniform" -> <<1, 1>>
          [] pattern = "ramp" -> <<c[1] + c[2] + c[3], 1>>
          [] OTHER -> <<0, 1>>]

\* sorting, with or without a missing value in the last row
SortingRaster(pattern) ==
    [c \in StatCells |->
        IF pattern = "gap" /\ c[2] = StatRows - 1 /\ c[3] = 0 THEN NaN
        ELSE <<1 + 2 * c[3] + c[2], 1>>]

StatScenes ==
    [archels : ArchelPatterns, thickness : ThicknessPatterns,
     sorting : SortingPatterns, coastline_y : 0..StatRows]

\* the arguments of get_stats_per_archel
StatArguments(sc) ==
    [archels |-> ArchelRaster(sc.archels),
     preserved_thickness |-> ThicknessRaster(sc.thickness),
     d50 |-> [c \in StatCells |-> <<1 + c[3], 1>>],
     fractions |-> [c \in StatCells |-> <<1 + c[2], 4>>],
     sorting |-> SortingRaster(sc.sorting),
     coastline_y |-> sc.coastline_y]

\* statistics.py:45-47  the cells selected for element i
idxs(args, i) ==
    {c \in StatCells :
        /\ c[2] >= args.coastline_y
        /\ RLt(RZero, args.preserved_thickness[c])
        /\ args.archels[c] = i}

\* np.average(values[idxs], weights=weights[idxs])
Average(values, weights, cells) ==
    LET total == RSumCells(weights, cells)
    IN  IF \E c \in cells : values[c] = NaN THEN NaN
        ELSE IF total = RZero THEN NaN
        ELSE RDiv(RSumCells([c \in cells |-> RMul(values[c], weights[c])],
                            cells), total)

\* np.nanmean(values[idxs])
NanMean(values, cells) ==
    LET valid == NotNaN(values, cells)
    IN  IF valid = {} THEN NaN
        ELSE RDiv(RSumCells(values, valid), <<Cardinality(valid), 1>>)

\* the sorting of an element taken with the weights of the other two means
SortingWeighted(args, cells) ==
    Average(args.sorting, args.preserved_thickness, cells)

\* statistics.py:57  the sorting of an element
Sorting(args, cells) == NanMean(args.sorting, cells)

\* statistics.py:108-111  total volume and the share of each element in
\* percent; 0 / 0 is NaN
volume_stats(volumes) ==
    LET total_deposited_volume == RSumOver(volumes, 1, array_length)
    IN  [delta_volume |-> total_deposited_volume,
         archel_volumes |->
            [i \in 1..array_length |->
                IF total_deposited_volume = RZero THEN NaN
                ELSE RMul(RDiv(volumes[i], total_deposited_volume),
                          <<100, 1>>)]]

StatIdle ==
    /\ stat_scene = <<>>
    /\ stat_volumes = <<>>
    /\ stat_d50s = <<>>
    /\ stat_fractions = <<>>
    /\ stat_sorting = <<>>
    /\ stat_result = <<>>
    /\ stat_i = 0
    /\ stat_status = "idle"

StatEntry ==
    /\ stat_scene \in StatScenes
    /\ stat_volumes = <<>>
    /\ stat_d50s = <<>>
    /\ stat_fractions = <<>>
    /\ stat_sorting = <<>>
    /\ stat_result = <<>>
    /\ stat_i = 0
    /\ stat_status = "entry"

\* statistics.py:39-43  the four arrays of zeros, indexed here by the
\* element code 1..array_length
GetStatsCall ==
    /\ stat_status = "entry"
    /\ stat_volumes' = [i \in 1..array_length |-> RZero]
    /\ stat_d50s' = [i \in 1..array_length |-> RZero]
    /\ stat_fractions' = [i \in 1..array_length |-> RZero]
    /\ stat_sorting' = [i \in 1..array_length |-> RZero]
    /\ stat_i' = 1
    /\ stat_status' = "running"
    /\ UNCHANGED <<stat_scene, stat_result>>
    /\ UNCHANGED notStat

\* statistics.py:44-61  one iteration of the loop over the elements
GetStatsIteration ==
    /\ stat_status = "running"
    /\ stat_i <= array_length
    /\ LET args == StatArguments(stat_scene)
           i == stat_i
           cells == idxs(args, i)
       IN  IF cells # {}
           THEN /\ stat_volumes' = [stat_volumes EXCEPT
                      ![i] = RSumCells(args.preserved_thickness, cells)]
                /\ stat_d50s' = [stat_d50s EXCEPT
                      ![i] = Average(args.d50, args.preserved_thickness,
                                     cells)]
                /\ stat_fractions' = [stat_fractions EXCEPT
                      ![i] = Average(args.fractions,
                                     args.preserved_thickness, cells)]
                /\ stat_sorting' = [stat_sorting EXCEPT
                      ![i] = Sorting(args, cells)]
           ELSE /\ stat_d50s' = [stat_d50s EXCEPT ![i] = RZero]
                /\ stat_fractions' = [stat_fractions EXCEPT ![i] = RZero]
                /\ stat_sorting' = [stat_sorting EXCEPT ![i] = RZero]
                /\ UNCHANGED stat_volumes
    /\ stat_i' = stat_i + 1
    /\ UNCHANGED <<stat_scene, stat_result, stat_status>>
    /\ UNCHANGED notStat

\* statistics.py:62-63
GetStatsReturns ==
    /\ stat_status = "running"
    /\ stat_i = array_length + 1
    /\ stat_result' =
          LET v == volume_stats(stat_volumes)
          IN  [delta_volume |-> v.delta_volume,
               archel_volumes |-> v.archel_volumes,
               archel_d50s |-> stat_d50s,
               archel_fractions |-> stat_fractions,
               archel_sorting |-> stat_sorting]
    /\ stat_status' = "returned"
    /\ UNCHANGED <<stat_scene, stat_volumes, stat_d50s, stat_fractions,
                   stat_sorting, stat_i>>
    /\ UNCHANGED notStat

(* C24: the call reports, for each element, the preserved-thickness-        *)
(* weighted mean of D50, of sand fraction and of sorting over the cells at  *)
(* or beyond the coastline row that carry the element code and have         *)
(* preserved thickness > 0; an element with no such cell reports volume 0   *)
(* and 0 for the three means.                                               *)
C24_WeightedMeansPerElement ==
    stat_status = "returned" =>
        LET args == StatArguments(stat_scene)
        IN  \A i \in 1..array_length :
                LET cells == idxs(args, i)
                IN  IF cells # {}
                    THEN /\ stat_result.archel_d50s[i] =
                               Average(args.d50, args.preserved_thickness,
                                       cells)
                         /\ stat_result.archel_fractions[i] =
                               Average(args.fractions,
                                       args.preserved_thickness, cells)
                         /\ stat_result.archel_sorting[i] =
                               SortingWeighted(args, cells)
                    ELSE /\ stat_result.archel_volumes[i] = RZero
                         /\ stat_result.archel_d50s[i] = RZero
                         /\ stat_result.archel_fractions[i] = RZero
                         /\ stat_result.archel_sorting[i] = RZero

----------------------------------------------------------------------------
(* surface.delta_areas_from_boundaries as a function of the three areas it  *)
(* rasterises.  A polygon is given by the raster columns whose cell centre  *)
(* it covers: the model boundary, the delta edge between the topset and the *)
(* foreset contour (it may overshoot the foreset), and the deep marine part *)
(* of the model boundary beyond the foreset.                                *)

\* the model boundary covers the raster, or leaves out a column at a side
AreaDomains ==
    {{c \in EnvColumns : lo <= c /\ c <= hi} :
        lo \in 0..1, hi \in (EnvCols - 2)..(EnvCols - 1)}

\* rasters of an earlier timestep
AreaPrevious ==
    {[c \in EnvColumns |-> SubEnv.undefined],
     [c \in EnvColumns |-> SubEnv.prodelta],
     Rasterize(EnvColumns, {1}, {c \in EnvColumns : c >= 2})}

AreaArguments ==
    {[model_boundary |-> dom,
      delta_edge_polygon |-> {c \in EnvColumns : f - w <= c /\ c <= f + o},
      deep_marine_polygon |-> {c \in dom : c >= f},
      environments |-> prev] :
        dom \in AreaDomains, f \in 1..(EnvCols - 1), w \in 1..2, o \in 0..1,
        prev \in AreaPrevious}

\* the cells no shape covers keep the raster passed in
delta_areas_on_previous(args) ==
    [c \in EnvColumns |->
        IF c \in args.model_boundary \cup args.delta_edge_polygon
                    \cup args.deep_marine_polygon
        THEN Rasterize(args.model_boundary, args.delta_edge_polygon,
                       args.deep_marine_polygon)[c]
        ELSE args.environments[c]]

\* surface.py:125-135  environments is used for its shape only
delta_areas_from_boundaries(args) ==
    Rasterize(args.model_boundary, args.delta_edge_polygon,
              args.deep_marine_polygon)

AreaIdle ==
    /\ area_args = <<>>
    /\ area_result = <<>>
    /\ area_status = "idle"

AreaEntry ==
    /\ area_args \in AreaArguments
    /\ area_result = <<>>
    /\ area_status = "entry"

\* surface.py:89-135
DeltaAreasCall ==
    /\ area_status = "entry"
    /\ area_result' = delta_areas_from_boundaries(area_args)
    /\ area_status' = "returned"
    /\ UNCHANGED area_args
    /\ UNCHANGED notArea

(* C21: in the raster delta_areas_from_boundaries returns, a cell covered   *)
(* by the deep marine polygon is prodelta, else a cell covered by the       *)
(* delta edge polygon is delta front, else a cell covered by the model      *)
(* boundary is delta top, and a cell no polygon covers is undefined (0);    *)
(* the raster is the same whatever earlier raster was passed in.            *)
C21_AreasByPriority ==
    area_status = "returned" =>
        /\ \A c \in EnvColumns :
              /\ c \in area_args.model_boundary =>
                    area_result[c] \in {SubEnv.deltatop, SubEnv.deltafront,
                                        SubEnv.prodelta}
              /\ c \in area_args.deep_marine_polygon =>
                    area_result[c] = SubEnv.prodelta
              /\ c \in area_args.delta_edge_polygon
                          \ area_args.deep_marine_polygon =>
                    area_result[c] = SubEnv.deltafront
              /\ c \in area_args.model_boundary
                          \ (area_args.delta_edge_polygon
                               \cup area_args.deep_marine_polygon) =>
                    area_result[c] = SubEnv.deltatop
              /\ c \notin (area_args.model_boundary
                             \cup area_args.delta_edge_polygon
                             \cup area_args.deep_marine_polygon) =>
                    area_result[c] = SubEnv.undefined
        /\ \A prev \in AreaPrevious :
              area_result =
                  delta_areas_from_boundaries(
                      [area_args EXCEPT !.environments = prev])

\* a call with a cell in both the delta edge and the deep marine polygon,
\* and a cell outside every polygon that was prodelta in the raster passed in
C21_Witness ==
    /\ area_status = "returned"
    /\ \E c \in area_args.delta_edge_polygon \cap area_args.deep_marine_polygon :
          area_result[c] = SubEnv.prodelta
    /\ \E c \in EnvColumns :
          /\ c \notin (area_args.model_boundary
                         \cup area_args.delta_edge_polygon
                         \cup area_args.deep_marine_polygon)
          /\ area_args.environments[c] = SubEnv.prodelta
          /\ area_result[c] = SubEnv.undefined

----------------------------------------------------------------------------
(* utils.get_deltafront_contour_depth: the foreset depth per timestep,      *)
(* fitted through the contour depths sampled every fifth timestep from      *)
(* timestep 20 on.  The bottom depth of a sampled timestep is a profile     *)
(* along one row; the slope along a contour is known inside the inner       *)
(* boundary and NaN outside it.                                             *)

ForeMaxT == 31

\* utils.py:146  np.arange(20, timesteps, 5)
FirstSample == 20
SampleStep == 5

\* utils.py:138
contour_depths == [k \in 1..12 |-> <<k + 4, 2>>]

\* utils.py:146  the sampled timesteps, in order
SampledTimesteps(timesteps) ==
    {i \in 0..(timesteps - 1) :
        i >= FirstSample /\ (i - FirstSample) % SampleStep = 0}

\* bottom depth profiles: flat, a shallow step and a deep step
ForeProfiles ==
    {[c \in EnvColumns |-> IF c < 2 THEN <<0, 1>> ELSE <<d, 1>>] :
        d \in {0, 3, 9}}

ForeScenes ==
    [timesteps : 2..ForeMaxT, bottom_depth : ForeProfiles, inside : BOOLEAN]

\* utils.py:153  measure.find_contours(bottom_depth[i, :, :], contour_depth)
\* finds a contour where neighbouring cells lie on different sides
ContoursFound(sc, k) == HasContour(sc.bottom_depth, contour_depths[k])

\* utils.py:156-157  np.nanmean of the slope sampled along the contour: a
\* value that differs from depth to depth where the contour lies inside the
\* inner boundary, NaN where every sampled cell has been masked
SlopeMean(sc, k) ==
    IF sc.inside THEN RAbs(RSub(<<12, 2>>, contour_depths[k])) ELSE NaN

\* np.nanargmax: the first index of the largest value that is not NaN
NanArgMax(values) ==
    CHOOSE k \in DOMAIN values :
        /\ values[k] # NaN
        /\ \A j \in DOMAIN values :
              values[j] # NaN =>
                  /\ RLe(values[j], values[k])
                  /\ (j < k => RLt(values[j], values[k]))

\* utils.py:152-158  the sample of a timestep raises: np.argmax of an empty
\* list of contours, or np.nanargmax of means that are all NaN
SampleRaises(sc) ==
    \/ \E k \in DOMAIN contour_depths : ~ContoursFound(sc, k)
    \/ \A k \in DOMAIN contour_depths : SlopeMean(sc, k) = NaN

ForeIdle ==
    /\ fore_scene = <<>>
    /\ fore_contours = <<>>
    /\ fore_i = 0
    /\ fore_status = "idle"

ForeEntry ==
    /\ fore_scene \in ForeScenes
    /\ fore_contours = <<>>
    /\ fore_i = 0
    /\ fore_status = "entry"

\* utils.py:138-145
ContourDepthCall ==
    /\ fore_status = "entry"
    /\ fore_i' = FirstSample
    /\ fore_status' = "running"
    /\ UNCHANGED <<fore_scene, fore_contours>>
    /\ UNCHANGED notFore

\* utils.py:146-158  one sampled timestep
ContourDepthSample ==
    /\ fore_status = "running"
    /\ fore_i \in SampledTimesteps(fore_scene.timesteps)
    /\ ~SampleRaises(fore_scene)
    /\ fore_contours' =
          Append(fore_contours,
                 contour_depths[NanArgMax(
                     [k \in DOMAIN contour_depths |->
                         SlopeMean(fore_scene, k)])])
    /\ fore_i' = fore_i + SampleStep
    /\ UNCHANGED <<fore_scene, fore_status>>
    /\ UNCHANGED notFore

\* utils.py:154, 158  ValueError in a sampled timestep
ContourDepthSampleRaises ==
    /\ fore_status = "running"
    /\ fore_i \in SampledTimesteps(fore_scene.timesteps)
    /\ SampleRaises(fore_scene)
    /\ fore_status' = "raised"
    /\ UNCHANGED <<fore_scene, fore_contours, fore_i>>
    /\ UNCHANGED notFore

\* utils.py:160  np.polyfit of empty vectors raises TypeError
ContourDepthFitRaises ==
    /\ fore_status = "running"
    /\ fore_i >= fore_scene.timesteps
    /\ fore_contours = <<>>
    /\ fore_status' = "raised"
    /\ UNCHANGED <<fore_scene, fore_contours, fore_i>>
    /\ UNCHANGED notFore

\* utils.py:160-165  the fit through at least one sample is evaluated at
\* every timestep
ContourDepthReturns ==
    /\ fore_status = "running"
    /\ fore_i >= fore_scene.timesteps
    /\ fore_contours # <<>>
    /\ fore_status' = "returned"
    /\ UNCHANGED <<fore_scene, fore_contours, fore_i>>
    /\ UNCHANGED notFore

(* C27: for a simulation of at least 2 timesteps, runs of fewer than 21     *)
(* timesteps included, get_deltafront_contour_depth does not raise.         *)
C27_ContourDepthNeverRaises ==
    (fore_status # "idle" /\ fore_scene.timesteps >= 2) =>
        fore_status # "raised"

----------------------------------------------------------------------------
(* The sedimentary log of one location: SedimentaryLog._get_log_data.      *)
(* log_zcor is the surface elevation of the location per timestep and the   *)
(* logged variable of timestep t has the value t + 1.                       *)

LogT == 3
LogMaxZ == 2

\* sedlog.py:77  the elevation the lists start with
LogSentinel == -999

LogDepths == {LogSentinel} \cup 0..LogMaxZ

\* [l for l in logdepth if l < depth_t]
Below(depths, depth_t) ==
    LET Keep(l) == l < depth_t
    IN  SelectSeq(depths, Keep)

\* zip(logdata, logdepth): the pairs up to the end of the shorter list
Zip(data, depths) ==
    [k \in 1..Min(Len(data), Len(depths)) |-> <<data[k], depths[k]>>]

\* line 88 left out: the data list keeps every entry
ErodedDataUnfiltered(data, depths, depth_t) == data

\* sedlog.py:88  [d for d, l in zip(logdata, logdepth) if l < depth_t], where
\* logdepth is the list line 87 has already filtered
ErodedData(data, depths, depth_t) ==
    LET Keep(pair) == pair[2] < depth_t
        kept == SelectSeq(Zip(data, depths), Keep)
    IN  [k \in 1..Len(kept) |-> kept[k][1]]

LogIdle ==
    /\ log_zcor = <<>>
    /\ logdepth = <<>>
    /\ logdata = <<>>
    /\ log_t = 0
    /\ log_status = "idle"

\* sedlog.py:77-78
LogEntry ==
    /\ log_zcor \in [0..(LogT - 1) -> LogDepths]
    /\ logdepth = <<LogSentinel, LogSentinel>>
    /\ logdata = <<0, 0>>
    /\ log_t = 0
    /\ log_status = "running"

\* sedlog.py:82-85  the surface lies above the last boundary: a new layer
LogDeposition ==
    /\ log_status = "running"
    /\ log_t < LogT
    /\ LET depth_t == log_zcor[log_t]
           data_t == log_t + 1
       IN  /\ logdepth[Len(logdepth)] < depth_t
           /\ logdepth' = logdepth \o <<logdepth[Len(logdepth)], depth_t>>
           /\ logdata' = logdata \o <<data_t, data_t>>
    /\ log_t' = log_t + 1
    /\ UNCHANGED <<log_zcor, log_status>>
    /\ UNCHANGED notLog

\* sedlog.py:86-90  the surface lies at or below the last boundary: the
\* boundaries at or above it are removed
LogErosion ==
    /\ log_status = "running"
    /\ log_t < LogT
    /\ LET depth_t == log_zcor[log_t]
           below == Below(logdepth, depth_t)
           data == ErodedData(logdata, below, depth_t)
       IN  /\ logdepth[Len(logdepth)] >= depth_t
           /\ data # <<>>
           /\ logdepth' = Append(below, depth_t)
           /\ logdata' = Append(data, data[Len(data)])
    /\ log_t' = log_t + 1
    /\ UNCHANGED <<log_zcor, log_status>>
    /\ UNCHANGED notLog

\* sedlog.py:90  logdata[-1] of an empty list: IndexError
LogErosionRaises ==
    /\ log_status = "running"
    /\ log_t < LogT
    /\ LET depth_t == log_zcor[log_t]
           below == Below(logdepth, depth_t)
       IN  /\ logdepth[Len(logdepth)] >= depth_t
           /\ ErodedData(logdata, below, depth_t) = <<>>
    /\ log_status' = "raised"
    /\ UNCHANGED <<log_zcor, logdepth, logdata, log_t>>
    /\ UNCHANGED notLog

\* sedlog.py:91-95  the four leading entries are dropped
LogReturns ==
    /\ log_status = "running"
    /\ log_t = LogT
    /\ logdepth' = SubSeq(logdepth, 5, Len(logdepth))
    /\ logdata' = SubSeq(logdata, 5, Len(logdata))
    /\ log_status' = "returned"
    /\ UNCHANGED <<log_zcor, log_t>>
    /\ UNCHANGED notLog

(* C30: after each processed timestep whose surface elevation lies above    *)
(* the -999 sentinel, the boundary list and the data list have equal        *)
(* length, the boundary list is non-decreasing from bottom to top, and its  *)
(* last entry is the surface elevation of that timestep.                    *)
C30_LogListsStayAligned ==
    (log_status = "running" /\ log_t >= 1
        /\ log_zcor[log_t - 1] > LogSentinel) =>
        /\ Len(logdepth) = Len(logdata)
        /\ \A k \in 1..(Len(logdepth) - 1) : logdepth[k] <= logdepth[k + 1]
        /\ logdepth[Len(logdepth)] = log_zcor[log_t - 1]

\* an erosion step has just removed the boundaries of two earlier layers
C30_Witness ==
    /\ log_status = "running"
    /\ log_t >= 3
    /\ log_zcor[log_t - 1] > LogSentinel
    /\ log_zcor[log_t - 1] < log_zcor[log_t - 3]
    /\ log_zcor[log_t - 3] < log_zcor[log_t - 2]
    /\ Len(logdepth) = 4
    /\ Len(logdata) = 4

----------------------------------------------------------------------------
(* The post-processing run of model.ModelResult: construction with          *)
(* post=True, then postprocess().  run_fields holds the attributes set so   *)
(* far.  What a stage computes is modelled in the components above; here a  *)
(* stage either sets its attributes or raises, run_fail naming the stage    *)
(* whose computation raises.  With layering.preservation as it stands       *)
(* (two parameters, called with three at model.py:267-269) that stage is    *)
(* the sediment stage.                                                      *)

\* the keys of the classification section read anywhere in the code
ClassificationParameters ==
    {"deltafront_expected_width",
     "channel_detection_method",
     "channel_detection_windowsize",
     "channel_detection_sensitivity",
     "delta_top_subaqeous_depth",
     "deltafront_detection_minimal_sandfraction",
     "mouthbar_detection_search_radius",
     "mouthbar_detection_critical_bl_change_df",
     "mouthbar_detection_critical_bl_change_ch"}

\* a settings file with every parameter in order, or with one of them
\* missing or malformed
RunConfigs ==
    {[p \in ClassificationParameters |-> "ok"]}
        \cup {[p \in ClassificationParameters |->
                  IF p = q THEN flaw ELSE "ok"] :
                 q \in ClassificationParameters,
                 flaw \in {"missing", "malformed"}}

Broken(config) == \E p \in ClassificationParameters : config[p] # "ok"

\* model.py:167-200  attributes derived from the dataset at construction
InitFields ==
    {"mouth_position", "model_mask", "subsidence", "deposit_height",
     "bottom_depth", "slope", "foreset_depth"}

\* model.py:56-61
SedfileFields == {"sed_type", "rho_p", "rho_db", "d50_input"}

\* model.py:401-405  statistics_summary called first
PostprocessStagesStatisticsFirst ==
    <<"statistics", "sediment", "classification">>

\* model.py:401-405  the calls of postprocess, in order
PostprocessStages == <<"sediment", "classification", "statistics">>

\* the attributes a stage reads from the instance
StageReads(stage) ==
    CASE stage = "sediment" ->
            {"deposit_height", "rho_db", "sed_type", "d50_input"}
      [] stage = "classification" ->
            {"bottom_depth", "deposit_height", "model_mask"}
      [] stage = "statistics" ->
            {"architectural_elements", "preserved_thickness", "d50",
             "sandfraction", "sorting", "mouth_position"}

\* the attributes a stage has set when it returns
StageWrites(stage) ==
    CASE stage = "sediment" ->
            {"dmsedcum_final", "zcor", "preserved_thickness",
             "deposition_age", "vfraction", "sandfraction", "diameters",
             "porosity", "permeability", "sorting", "d50"}
      [] stage = "classification" -> {"architectural_elements"}
      [] stage = "statistics" ->
            {"d50_distributions", "d50_distribution_weights",
             "archel_volumes", "delta_stats"}

\* the attributes a stage has set when its computation raises: those
\* assigned before the first call into the analysis code
StageWritesBeforeRaise(stage) ==
    IF stage = "sediment" THEN {"dmsedcum_final", "zcor"} ELSE {}

\* the outputs of the per-timestep processing: sediment composition,
\* preservation and classification
PerTimestepOutputs ==
    StageWrites("sediment") \cup StageWrites("classification")

RunIdle ==
    /\ run_config = <<>>
    /\ run_fail = "none"
    /\ run_fields = {}
    /\ run_done = <<>>
    /\ run_error = "none"
    /\ run_pc = "idle"

RunEntry ==
    /\ run_config \in RunConfigs
    /\ run_fail \in {"none", "init", "sediment", "classification",
                     "statistics"}
    /\ run_fields = {}
    /\ run_done = <<>>
    /\ run_error = "none"
    /\ run_pc = "entry"

\* model.py:45-48  the settings file is read into a ConfigParser; no
\* parameter is looked at
ModelResultInit ==
    /\ run_pc = "entry"
    /\ run_fields' = run_fields \cup {"config", "dataset"}
    /\ run_pc' = "init"
    /\ UNCHANGED <<run_config, run_fail, run_done, run_error>>
    /\ UNCHANGED notRun

\* model.py:167-200  complete_init_for_postprocess up to the foreset depth
CompleteInitDerived ==
    /\ run_pc = "init"
    /\ IF run_fail = "init"
       THEN /\ run_error' = "init"
            /\ run_pc' = "raised"
            /\ UNCHANGED run_fields
       ELSE /\ run_fields' = run_fields \cup InitFields
            /\ run_pc' = "derived"
            /\ UNCHANGED run_error
    /\ UNCHANGED <<run_config, run_fail, run_done>>
    /\ UNCHANGED notRun

\* model.py:201-203  int(config["classification"]["deltafront_expected_width"])
\* raises KeyError for a missing and ValueError for a malformed value
ReadExpectedWidth ==
    /\ run_pc = "derived"
    /\ IF run_config["deltafront_expected_width"] # "ok"
       THEN /\ run_error' = "config"
            /\ run_pc' = "raised"
            /\ UNCHANGED run_fields
       ELSE /\ run_fields' = run_fields \cup {"df_average_width"}
            /\ run_pc' = "width"
            /\ UNCHANGED run_error
    /\ UNCHANGED <<run_config, run_fail, run_done>>
    /\ UNCHANGED notRun

\* model.py:52, 56-61  the sediment file is read and __init__ returns
ReadSedfile ==
    /\ run_pc = "width"
    /\ run_fields' = run_fields \cup SedfileFields
    /\ run_pc' = "constructed"
    /\ UNCHANGED <<run_config, run_fail, run_done, run_error>>
    /\ UNCHANGED notRun

\* model.py:393  the caller calls postprocess()
Postprocess ==
    /\ run_pc = "constructed"
    /\ run_pc' = "postprocess"
    /\ UNCHANGED <<run_config, run_fail, run_fields, run_done, run_error>>
    /\ UNCHANGED notRun

\* model.py:401-405  one call of postprocess, to
\* compute_sediment_parameters_postprocessing (245-280),
\* detect_architectural_elements (226-243) or statistics_summary (317-383):
\* reading an attribute that is not set raises
\* AttributeError, a failing computation raises what it raises, and
\* otherwise the stage sets its attributes and returns
RunStage(stage) ==
    /\ run_pc = "postprocess"
    /\ Len(run_done) < Len(PostprocessStages)
    /\ PostprocessStages[Len(run_done) + 1] = stage
    /\ IF ~(StageReads(stage) \subseteq run_fields)
       THEN /\ run_error' = "attribute"
            /\ run_pc' = "raised"
            /\ UNCHANGED <<run_fields, run_done>>
       ELSE IF run_fail = stage
       THEN /\ run_error' = stage
            /\ run_pc' = "raised"
            /\ run_fields' = run_fields \cup StageWritesBeforeRaise(stage)
            /\ UNCHANGED run_done
       ELSE /\ run_fields' = run_fields \cup StageWrites(stage)
            /\ run_done' = Append(run_done, stage)
            /\ UNCHANGED <<run_error, run_pc>>
    /\ UNCHANGED <<run_config, run_fail>>
    /\ UNCHANGED notRun

\* model.py:405  postprocess returns
PostprocessReturns ==
    /\ run_pc = "postprocess"
    /\ Len(run_done) = Len(PostprocessStages)
    /\ run_pc' = "returned"
    /\ UNCHANGED <<run_config, run_fail, run_fields, run_done, run_error>>
    /\ UNCHANGED notRun

(* C25: with a missing or malformed classification parameter in the         *)
(* settings, the error surfaces before any per-timestep processing: no      *)
(* output of sediment composition, preservation or classification is ever   *)
(* computed, and the run does not return.                                   *)
C25_ConfigurationFailsFast ==
    Broken(run_config) =>
        /\ run_fields \cap PerTimestepOutputs = {}
        /\ run_pc # "returned"

----------------------------------------------------------------------------
(* The specifications, one per component                                    *)

InitPres == PresEntry /\ FracIdle /\ DiamIdle /\ EnvIdle /\ SkelIdle /\ ElemIdle /\ WinIdle /\ SlopeIdle /\ ChanIdle /\ StatIdle /\ AreaIdle /\ ForeIdle /\ LogIdle /\ RunIdle
NextPres == PreservationStep
SpecPres == InitPres /\ [][NextPres]_vars

InitFrac == FracEntry /\ PresIdle /\ DiamIdle /\ EnvIdle /\ SkelIdle /\ ElemIdle /\ WinIdle /\ SlopeIdle /\ ChanIdle /\ StatIdle /\ AreaIdle /\ ForeIdle /\ LogIdle /\ RunIdle
NextFrac == CalculateFraction
SpecFrac == InitFrac /\ [][NextFrac]_vars

InitDiam == DiamEntry /\ PresIdle /\ FracIdle /\ EnvIdle /\ SkelIdle /\ ElemIdle /\ WinIdle /\ SlopeIdle /\ ChanIdle /\ StatIdle /\ AreaIdle /\ ForeIdle /\ LogIdle /\ RunIdle
NextDiam == \E it \in DiamTimes : DiameterIteration(it)
SpecDiam == InitDiam /\ [][NextDiam]_vars

InitEnv == EnvEntry /\ PresIdle /\ FracIdle /\ DiamIdle /\ SkelIdle /\ ElemIdle /\ WinIdle /\ SlopeIdle /\ ChanIdle /\ StatIdle /\ AreaIdle /\ ForeIdle /\ LogIdle /\ RunIdle
NextEnv ==
    \/ EnvNoContourRaises
    \/ EnvGeometryRaises
    \/ EnvIteration
    \/ EnvReturn
SpecEnv == InitEnv /\ [][NextEnv]_vars

InitSkel == SkelEntry /\ PresIdle /\ FracIdle /\ DiamIdle /\ EnvIdle /\ ElemIdle /\ WinIdle /\ SlopeIdle /\ ChanIdle /\ StatIdle /\ AreaIdle /\ ForeIdle /\ LogIdle /\ RunIdle
NextSkel ==
    \/ SkeletonEndpointsReturns
    \/ SkeletonEndpointsRaises
SpecSkel == InitSkel /\ [][NextSkel]_vars

InitElem == ElemEntry /\ PresIdle /\ FracIdle /\ DiamIdle /\ EnvIdle /\ SkelIdle /\ WinIdle /\ SlopeIdle /\ ChanIdle /\ StatIdle /\ AreaIdle /\ ForeIdle /\ LogIdle /\ RunIdle
NextElem ==
    \/ DetectElementsCall
    \/ DetectElementsIteration
    \/ DetectElementsRaises
    \/ DetectElementsReturns
    \/ ElemCallAgain
SpecElem == InitElem /\ [][NextElem]_vars

InitWin == WinEntry /\ PresIdle /\ FracIdle /\ DiamIdle /\ EnvIdle /\ SkelIdle /\ ElemIdle /\ SlopeIdle /\ ChanIdle /\ StatIdle /\ AreaIdle /\ ForeIdle /\ LogIdle /\ RunIdle
NextWin ==
    \/ \E op \in WinOps : WindowFunctionReturns(op)
    \/ \E op \in WinOps : WindowFunctionRaises(op)
SpecWin == InitWin /\ [][NextWin]_vars

InitSlope == SlopeEntry /\ PresIdle /\ FracIdle /\ DiamIdle /\ EnvIdle /\ SkelIdle /\ ElemIdle /\ WinIdle /\ ChanIdle /\ StatIdle /\ AreaIdle /\ ForeIdle /\ LogIdle /\ RunIdle
NextSlope ==
    \/ SlopeCall
SpecSlope == InitSlope /\ [][NextSlope]_vars

InitChan == ChanEntry /\ PresIdle /\ FracIdle /\ DiamIdle /\ EnvIdle /\ SkelIdle /\ ElemIdle /\ WinIdle /\ SlopeIdle /\ StatIdle /\ AreaIdle /\ ForeIdle /\ LogIdle /\ RunIdle
NextChan ==
    \/ DetectChannelNetworkCall
    \/ DetectChannelNetworkIteration("local")
    \/ DetectChannelNetworkIteration("static")
    \/ DetectChannelNetworkReturns
SpecChan == InitChan /\ [][NextChan]_vars

InitStat == StatEntry /\ PresIdle /\ FracIdle /\ DiamIdle /\ EnvIdle /\ SkelIdle /\ ElemIdle /\ WinIdle /\ SlopeIdle /\ ChanIdle /\ AreaIdle /\ ForeIdle /\ LogIdle /\ RunIdle
NextStat ==
    \/ GetStatsCall
    \/ GetStatsIteration
    \/ GetStatsReturns
SpecStat == InitStat /\ [][NextStat]_vars

InitArea == AreaEntry /\ PresIdle /\ FracIdle /\ DiamIdle /\ EnvIdle /\ SkelIdle /\ ElemIdle /\ WinIdle /\ SlopeIdle /\ ChanIdle /\ StatIdle /\ ForeIdle /\ LogIdle /\ RunIdle
NextArea ==
    \/ DeltaAreasCall
SpecArea == InitArea /\ [][NextArea]_vars

InitFore == ForeEntry /\ PresIdle /\ FracIdle /\ DiamIdle /\ EnvIdle /\ SkelIdle /\ ElemIdle /\ WinIdle /\ SlopeIdle /\ ChanIdle /\ StatIdle /\ AreaIdle /\ LogIdle /\ RunIdle
NextFore ==
    \/ ContourDepthCall
    \/ ContourDepthSample
    \/ ContourDepthSampleRaises
    \/ ContourDepthFitRaises
    \/ ContourDepthReturns
SpecFore == InitFore /\ [][NextFore]_vars

InitLog == LogEntry /\ PresIdle /\ FracIdle /\ DiamIdle /\ EnvIdle /\ SkelIdle /\ ElemIdle /\ WinIdle /\ SlopeIdle /\ ChanIdle /\ StatIdle /\ AreaIdle /\ ForeIdle /\ RunIdle
NextLog ==
    \/ LogDeposition
    \/ LogErosion
    \/ LogErosionRaises
    \/ LogReturns
SpecLog == InitLog /\ [][NextLog]_vars

InitRun == RunEntry /\ PresIdle /\ FracIdle /\ DiamIdle /\ EnvIdle /\ SkelIdle /\ ElemIdle /\ WinIdle /\ SlopeIdle /\ ChanIdle /\ StatIdle /\ AreaIdle /\ ForeIdle /\ LogIdle
NextRun ==
    \/ ModelResultInit
    \/ CompleteInitDerived
    \/ ReadExpectedWidth
    \/ ReadSedfile
    \/ Postprocess
    \/ RunStage("sediment")
    \/ RunStage("classification")
    \/ RunStage("statistics")
    \/ PostprocessReturns
SpecRun == InitRun /\ [][NextRun]_vars

====
